---- MODULE Spec2Model ----
(***************************************************************************)
(* aivid: the extractor pipeline of analyze_file, the extractors that      *)
(* write into the shared VideoMetadata record, and the AI-verdict fusion   *)
(* of AIDetectionResult.                                                   *)
(*                                                                         *)
(* Conventions.  A Python str is a sequence of tokens (words and the "/"   *)
(* separator); `x in s` is Contains(s, x), and the empty sequence stands   *)
(* for None and for "" alike (both are falsy where the code tests them).   *)
(* A confidence is an integer number of hundredths (0.9 is 90).  A parsed  *)
(* datetime is the string naming the instant; Nil is None.                 *)
(***************************************************************************)
EXTENDS Integers, Sequences, FiniteSets, TLC

VARIABLES
    pc,            \* where analyze_file is: "start", "extractors", "except", "done", "not_found"; "calls" / "signal" / "heuristic" / "manifest" / "boxes" outside a run; "stat", "return", "twice" in a repeated run
    file,          \* the call: does the path exist, is its extension in MP4_EXTENSIONS, is full set
    installed,     \* the environment: outcome of each extractor class's is_available()
    queue,         \* analyze_file: the extractor instances still to be invoked
    instantiated,  \* the extractor classes get_available_extractors() instantiated
    trace,         \* the extract() calls made so far, in order
    warnings,      \* the extractors whose failure was reported by warnings.warn
    metadata,      \* the VideoMetadata record
    offers,        \* per timestamp source, the first parsable creation time it offered
    ncalls,        \* number of direct calls made (outside analyze_file)
    sigcall,       \* the arguments of the latest direct add_signal call
    mp4,           \* parse_mp4_boxes: the file given (its bytes) and max_depth
    parser,        \* parse_mp4_boxes: the file position, the open parse_boxes calls, the boxes
    fs             \* the file system: its clock, the file's times, the records of the runs made

vars == <<pc, file, installed, queue, instantiated, trace, warnings, metadata, offers,
          ncalls, sigcall, mp4, parser, fs>>

Nil == "None"

-----------------------------------------------------------------------------
(* Bounds of the model *)

MaxActions == 2      \* actions per c2pa.actions assertion
MaxCalls == 3        \* direct calls (extract, add_signal) on one record
MaxNest == 2         \* nesting of the boxes of a parsed file
MaxCut == 3
\* the last instant of the file system's clock
MaxClock == 4          \* bytes a parsed file is cut short by

-----------------------------------------------------------------------------
(* Strings as token sequences *)

Contains(s, pat) ==
    \E i \in 1..(Len(s) - Len(pat) + 1) : SubSeq(s, i, i + Len(pat) - 1) = pat

Has(s, tok) == \E i \in 1..Len(s) : s[i] = tok

\* str.lower() on one token
LowerTok(t) ==
    CASE t = "Sora" -> "sora"
      [] t = "SORA" -> "sora"
      [] t = "OpenAI" -> "openai"
      [] t = "OPENAI" -> "openai"
      [] t = "Veo" -> "veo"
      [] t = "Google" -> "google"
      [] t = "Adobe" -> "adobe"
      [] t = "Firefly" -> "firefly"
      [] t = "ChatGPT" -> "chatgpt"
      [] t = "Truepic" -> "truepic"
      [] t = "Untrusted" -> "untrusted"
      [] OTHER -> t

Lower(s) == [i \in 1..Len(s) |-> LowerTok(s[i])]

\* s.split("/")[-1]: what follows the last "/"
RECURSIVE LastSegment(_)
LastSegment(s) ==
    IF ~Has(s, "/") THEN s
    ELSE LastSegment(Tail(s))

-----------------------------------------------------------------------------
(* Timestamps: datetime.fromisoformat and ExifToolExtractor._parse_date *)

\* datetime.fromisoformat(str(x).replace("Z", "+00:00")); Nil when it raises ValueError
FromIsoFormat(raw) ==
    CASE raw = "2024-01-01T00:00:00Z" -> "2024-01-01 00:00:00+00:00"
      [] raw = "2024-06-15T10:30:00" -> "2024-06-15 10:30:00"
      [] raw = "2025-02-02T02:02:02Z" -> "2025-02-02 02:02:02+00:00"
      [] OTHER -> Nil

\* the strptime formats of DATE_FORMATS, then the ISO fallback
parse_date(raw) ==
    CASE raw = Nil -> Nil
      [] raw = "2024:03:10 08:00:00" -> "2024-03-10 08:00:00"
      [] raw = "2024:06:15 10:30:00+08:00" -> "2024-06-15 10:30:00+08:00"
      [] OTHER -> FromIsoFormat(raw)

-----------------------------------------------------------------------------
(* AIDetectionResult and add_signal *)

Signal(name, detected, confidence, description, is_fact) ==
    [name |-> name, detected |-> detected, confidence |-> confidence,
     description |-> description, is_fact |-> is_fact]

NewAIDetectionResult ==
    [is_ai_generated |-> FALSE,
     generator |-> Nil,
     generator_raw |-> <<>>,
     confidence |-> 0,
     signals |-> <<>>,
     signing_authorities |-> <<>>]

\* self.signals[key] = sig: the dict is the sequence of <<key, signal>> pairs in
\* insertion order; assigning to a key already present keeps its position
HasKey(signals, key) == \E i \in 1..Len(signals) : signals[i][1] = key

GetSignal(signals, key) ==
    signals[CHOOSE i \in 1..Len(signals) : signals[i][1] = key][2]

SetSignal(signals, key, sig) ==
    IF HasKey(signals, key)
    THEN [i \in 1..Len(signals) |->
            IF signals[i][1] = key THEN <<key, sig>> ELSE signals[i]]
    ELSE Append(signals, <<key, sig>>)

\* a wrong add_signal: the overall confidence follows the latest detected signal
add_signal_last_wins(ai, name, detected, confidence, description, is_fact) ==
    [ai EXCEPT
        !.signals = SetSignal(@, name, Signal(name, detected, confidence, description, is_fact)),
        !.confidence = IF detected THEN confidence ELSE @]

add_signal(ai, name, detected, confidence, description, is_fact) ==
    [ai EXCEPT
        !.signals = SetSignal(@, name, Signal(name, detected, confidence, description, is_fact)),
        !.confidence = IF detected /\ confidence > @ THEN confidence ELSE @]

DetectedConfidences(signals) ==
    {signals[i][2].confidence : i \in {j \in 1..Len(signals) : signals[j][2].detected}}

Max(S) == CHOOSE x \in S : \A y \in S : y <= x
Min(S) == CHOOSE x \in S : \A y \in S : x <= y

-----------------------------------------------------------------------------
(* The VideoMetadata record as analyze_file creates it *)

NewTimestampInfo == [value |-> Nil, source |-> Nil, raw_value |-> Nil]

NewC2PAInfo ==
    [has_c2pa |-> FALSE,
     source |-> Nil,
     manifest_id |-> Nil,
     claim_generator |-> <<>>,
     software_agent |-> <<>>,
     issuer |-> <<>>,
     cert_trusted |-> Nil,
     digital_source_type |-> <<>>,
     generation_mode |-> Nil,
     actions |-> <<>>,
     ingredient_count |-> 0,
     ingredients |-> <<>>,
     validation_state |-> Nil,
     validation_errors |-> 0,
     claim_signature_valid |-> Nil]

NewPlatformAIGC ==
    [tiktok_aigc_label_type |-> Nil,
     tiktok_api_video_tag_type |-> Nil,
     youtube_contains_synthetic_media |-> Nil]

NewVideoMetadata ==
    [technical |->
        [container |-> Nil,
         video |-> [codec |-> Nil, encoder |-> <<>>, handler |-> <<>>],
         audio |-> [codec |-> Nil, sample_rate |-> 0]],
     descriptive |->
        [software |-> <<>>,
         creation_date |-> Nil,
         creation_timestamp |-> NewTimestampInfo,
         iptc_ai |-> [ai_system_used |-> <<>>, ai_generated |-> Nil]],
     provenance |-> [c2pa |-> NewC2PAInfo, platform_aigc |-> NewPlatformAIGC],
     ai_detection |-> NewAIDetectionResult,
     raw |->
        [ffprobe |-> FALSE,
         exiftool |-> FALSE,
         c2pa |-> <<>>,
         format_tags |-> [is_dict |-> TRUE, encoder |-> <<>>],
         box_structure |-> Nil,
         strings |-> Nil]]

\* what an extract() call ends with: the record as it left it, and whether it raised
Returned(md) == [md |-> md, raised |-> FALSE]
Raised(md) == [md |-> md, raised |-> TRUE]

\* the creation TimestampInfo as a source writes it (value, source, raw_value, creation_date)
WriteCreation(md, parsed, source, raw) ==
    [md EXCEPT
        !.descriptive.creation_timestamp = [value |-> parsed, source |-> source, raw_value |-> raw],
        !.descriptive.creation_date = parsed]

-----------------------------------------------------------------------------
(* FFprobeExtractor *)

\* int(stream["sample_rate"]) under contextlib.suppress(ValueError, TypeError);
\* 0 stands for "left as None"
SampleRateInt(raw, before) ==
    CASE raw = "96000" -> 96000
      [] raw = "48000" -> 48000
      [] OTHER -> before

parse_video_stream(stream, md) ==
    [md EXCEPT !.technical.video =
        [codec |-> stream.codec_name, encoder |-> stream.encoder, handler |-> stream.handler]]

parse_audio_stream(stream, md) ==
    [md EXCEPT !.technical.audio =
        [codec |-> stream.codec_name,
         sample_rate |-> SampleRateInt(stream.sample_rate, @.sample_rate)]]

\* a wrong stream loop: every stream of a family is parsed, so the last one stays
RECURSIVE parse_streams_last_wins(_, _)
parse_streams_last_wins(streams, md) ==
    IF streams = <<>> THEN Returned(md)
    ELSE LET stream == Head(streams) IN
         IF ~stream.is_dict THEN Raised(md)
         ELSE IF stream.codec_type = "video"
              THEN parse_streams_last_wins(Tail(streams), parse_video_stream(stream, md))
         ELSE IF stream.codec_type = "audio"
              THEN parse_streams_last_wins(Tail(streams), parse_audio_stream(stream, md))
         ELSE parse_streams_last_wins(Tail(streams), md)

RECURSIVE parse_streams(_, _)
parse_streams(streams, md) ==
    IF streams = <<>> THEN Returned(md)
    ELSE LET stream == Head(streams) IN
         IF ~stream.is_dict THEN Raised(md)   \* stream.get: AttributeError
         ELSE IF stream.codec_type = "video" /\ md.technical.video.codec = Nil
              THEN parse_streams(Tail(streams), parse_video_stream(stream, md))
         ELSE IF stream.codec_type = "audio" /\ md.technical.audio.codec = Nil
              THEN parse_streams(Tail(streams), parse_audio_stream(stream, md))
         ELSE parse_streams(Tail(streams), md)

FFprobe_parse_tags(tags, md) ==
    LET m1 == [md EXCEPT !.descriptive.software = tags.encoder]
        parsed == FromIsoFormat(tags.creation_time)
    IN  IF tags.creation_time # Nil /\ parsed # Nil
           /\ m1.descriptive.creation_timestamp.value = Nil
        THEN WriteCreation(m1, parsed, "ffprobe", tags.creation_time)
        ELSE m1

\* FFprobeExtractor.extract on the prober's outcome
FFprobe_extract(probe, md) ==
    IF probe.kind = "raise" THEN Raised(md)        \* an exception _run_ffprobe does not catch
    ELSE IF probe.kind = "empty" THEN Returned(md) \* {}: non-zero exit, timeout, bad JSON
    ELSE
      LET m1 == [md EXCEPT !.raw.ffprobe = TRUE,
                           !.technical.container = probe.format_name]
          r2 == parse_streams(probe.streams, m1)
      IN  IF r2.raised THEN r2
          ELSE LET m3 == [r2.md EXCEPT !.raw.format_tags =
                              [is_dict |-> probe.tags.is_dict, encoder |-> probe.tags.encoder]]
               IN  IF ~probe.tags.is_dict THEN Raised(m3)   \* tags.get: AttributeError
                   ELSE Returned(FFprobe_parse_tags(probe.tags, m3))

\* the timestamp the prober's output offers
FFprobe_offer(probe) ==
    IF probe.kind = "data" /\ probe.tags.is_dict /\ probe.tags.creation_time # Nil
       /\ \A i \in 1..Len(probe.streams) : probe.streams[i].is_dict
    THEN FromIsoFormat(probe.tags.creation_time)
    ELSE Nil

-----------------------------------------------------------------------------
(* C2PAExtractor / C2PAToolExtractor: the manifest parse both share *)

\* AI_GENERATORS, in dict order: <<key, normalized name>>
AI_GENERATORS ==
    << << <<"Sora">>, "OpenAI Sora" >>,
       << <<"DALL-E">>, "OpenAI DALL-E" >>,
       << <<"Midjourney">>, "Midjourney" >>,
       << <<"Stable", "Diffusion">>, "Stability AI" >>,
       << <<"StabilityAI">>, "Stability AI" >>,
       << <<"Adobe", "Firefly">>, "Adobe Firefly" >>,
       << <<"Firefly">>, "Adobe Firefly" >>,
       << <<"Runway">>, "Runway ML" >>,
       << <<"Pika">>, "Pika Labs" >>,
       << <<"Kling">>, "Kuaishou Kling" >>,
       << <<"Luma">>, "Luma AI" >>,
       << <<"Gemini">>, "Google Gemini" >>,
       << <<"Veo">>, "Google Veo" >> >>

SIGNING_AUTHORITIES == <<"OpenAI", "Adobe", "Microsoft", "Google", "Meta", "Apple">>

\* the first key of AI_GENERATORS found (case-insensitively) in name; 0 when none is
GeneratorMatch(name) ==
    LET hits == {i \in 1..Len(AI_GENERATORS) :
                    Contains(Lower(name), Lower(AI_GENERATORS[i][1]))}
    IN  IF hits = {} THEN 0 ELSE Min(hits)

\* C2PAInfo.is_ai_generated
C2PAInfo_is_ai_generated(c2pa) ==
    c2pa.digital_source_type # <<>> /\ Has(c2pa.digital_source_type, "trainedAlgorithmicMedia")

RECURSIVE AppendAuthorities(_, _, _)
AppendAuthorities(auths, issuer, have) ==
    IF auths = <<>> THEN have
    ELSE LET auth == Head(auths)
             hit == Has(Lower(issuer), LowerTok(auth)) /\ ~Has(have, auth)
         IN  AppendAuthorities(Tail(auths), issuer, IF hit THEN Append(have, auth) ELSE have)

update_ai_detection(md) ==
    LET c2pa == md.provenance.c2pa
        ai0 == md.ai_detection
        ai1 == IF C2PAInfo_is_ai_generated(c2pa)
               THEN add_signal([ai0 EXCEPT !.is_ai_generated = TRUE, !.confidence = 100],
                               "c2pa_source_type", TRUE, 100,
                               <<"digitalSourceType:">> \o c2pa.digital_source_type, FALSE)
               ELSE ai0
        generator_name == IF c2pa.claim_generator # <<>> THEN c2pa.claim_generator
                          ELSE c2pa.software_agent
        k == GeneratorMatch(generator_name)
        ai2 == IF generator_name = <<>> THEN ai1
               ELSE IF k = 0 THEN [ai1 EXCEPT !.generator_raw = generator_name]
               ELSE [ai1 EXCEPT !.generator_raw = generator_name,
                                !.generator = AI_GENERATORS[k][2],
                                !.is_ai_generated = TRUE]
        ai3 == IF c2pa.issuer = <<>> THEN ai2
               ELSE [ai2 EXCEPT !.signing_authorities =
                        AppendAuthorities(SIGNING_AUTHORITIES, c2pa.issuer, @)]
    IN  [md EXCEPT !.ai_detection = ai3]

\* one pass of the loop of _parse_actions
parse_action(action, md) ==
    LET c0 == md.provenance.c2pa
        agent == IF action.softwareAgent # <<>> THEN action.softwareAgent ELSE c0.software_agent
        source_type == IF Has(action.digitalSourceType, "/")
                       THEN LastSegment(action.digitalSourceType)
                       ELSE action.digitalSourceType
        when_time == IF action.when = Nil THEN Nil ELSE FromIsoFormat(action.when)
        c1 == [c0 EXCEPT
                !.software_agent = agent,
                !.digital_source_type = IF action.digitalSourceType # <<>> THEN source_type ELSE @,
                !.actions = Append(@, [action |-> action.action,
                                       software_agent |-> agent,
                                       digital_source_type |-> source_type,
                                       when |-> when_time])]
        m1 == [md EXCEPT !.provenance.c2pa = c1]
        ts == md.descriptive.creation_timestamp
    IN  IF when_time # Nil /\ action.action \in {"c2pa.created", "c2pa.published"}
           /\ (ts.value = Nil \/ ts.source # "c2pa")
        THEN WriteCreation(m1, when_time, "c2pa", action.when)
        ELSE m1

RECURSIVE parse_actions(_, _)
parse_actions(actions, md) ==
    IF actions = <<>> THEN Returned(md)
    ELSE IF ~Head(actions).is_dict THEN Raised(md)     \* action.get: AttributeError
    ELSE parse_actions(Tail(actions), parse_action(Head(actions), md))

IsImageFormat(fmt) == \E x \in {"image", "jpeg", "jpg", "png", "webp"} : Has(Lower(fmt), x)
IsVideoFormat(fmt) == \E x \in {"video", "mp4", "webm", "mov"} : Has(Lower(fmt), x)

\* a wrong inference: an image-like ingredient is looked for first
infer_generation_mode_image_first(md) ==
    LET c2pa == md.provenance.c2pa
        ings == c2pa.ingredients
    IN  IF c2pa.digital_source_type = <<>> THEN Returned(md)
        ELSE IF ~Has(c2pa.digital_source_type, "trainedAlgorithmicMedia") THEN Returned(md)
        ELSE IF c2pa.ingredient_count = 0
             THEN Returned([md EXCEPT !.provenance.c2pa.generation_mode = "text2video"])
        ELSE IF \E i \in 1..Len(ings) : ings[i].format_null THEN Raised(md)
        ELSE LET has_image == \E i \in 1..Len(ings) : IsImageFormat(ings[i].format)
                 has_video == \E i \in 1..Len(ings) : IsVideoFormat(ings[i].format)
             IN  Returned([md EXCEPT !.provenance.c2pa.generation_mode =
                              IF has_image THEN "image2video"
                              ELSE IF has_video THEN "video2video"
                              ELSE "text2video"])

\* _infer_generation_mode; ingredient.get("format", "").lower() raises on a null format
infer_generation_mode(md) ==
    LET c2pa == md.provenance.c2pa
        ings == c2pa.ingredients
    IN  IF c2pa.digital_source_type = <<>> THEN Returned(md)
        ELSE IF ~Has(c2pa.digital_source_type, "trainedAlgorithmicMedia") THEN Returned(md)
        ELSE IF c2pa.ingredient_count = 0
             THEN Returned([md EXCEPT !.provenance.c2pa.generation_mode = "text2video"])
        ELSE IF \E i \in 1..Len(ings) : ings[i].format_null THEN Raised(md)
        ELSE LET has_image == \E i \in 1..Len(ings) : IsImageFormat(ings[i].format)
                 has_video == \E i \in 1..Len(ings) : IsVideoFormat(ings[i].format)
             IN  Returned([md EXCEPT !.provenance.c2pa.generation_mode =
                              IF has_video THEN "video2video"
                              ELSE IF has_image THEN "image2video"
                              ELSE "text2video"])

\* the validation block of _parse_manifest
parse_validation(data, md) ==
    LET c0 == md.provenance.c2pa
        state == data.validation_state
        c1 == [c0 EXCEPT
                !.validation_state = state,
                !.claim_signature_valid =
                    IF state = "Valid" THEN "True" ELSE IF state # Nil THEN "False" ELSE @]
        status == data.validation_status
        untrusted == \E i \in 1..Len(status) : Has(Lower(status[i]), "untrusted")
        c2 == IF status = <<>> THEN c1
              ELSE LET c1a == [c1 EXCEPT !.validation_errors = Len(status),
                                         !.cert_trusted = IF untrusted THEN "False" ELSE @]
                   IN  IF c1a.cert_trusted = Nil /\ state = "Valid"
                       THEN [c1a EXCEPT !.cert_trusted = "True"]
                       ELSE c1a
    IN  [md EXCEPT !.provenance.c2pa = c2]

\* a wrong parse: a missing active manifest is read as an empty one
parse_manifest_body_lenient(source, data, md) ==
    LET m1 == [md EXCEPT !.provenance.c2pa.has_c2pa = TRUE,
                         !.provenance.c2pa.source = source,
                         !.raw.c2pa = <<data>>]
    IN  IF ~data.is_dict THEN Raised(m1)
        ELSE Returned(update_ai_detection(
                 parse_validation(data,
                     [m1 EXCEPT !.provenance.c2pa.manifest_id = data.active_manifest,
                                !.provenance.c2pa.claim_generator = data.claim_generator,
                                !.provenance.c2pa.issuer = data.issuer])))

\* _parse_manifest from the write of the source tag on (c2pa.py 54-182, c2patool.py 60-184)
parse_manifest_body(source, data, md) ==
    LET m1 == [md EXCEPT !.provenance.c2pa.has_c2pa = TRUE,
                         !.provenance.c2pa.source = source,
                         !.raw.c2pa = <<data>>]
    IN  IF ~data.is_dict THEN Raised(m1)            \* data.get: AttributeError
        ELSE IF data.active_manifest = Nil THEN Returned(m1)
        ELSE
        LET m2 == [m1 EXCEPT !.provenance.c2pa.manifest_id = data.active_manifest]
        IN  IF ~data.present THEN Returned(m2)
            ELSE
            LET m3 == [m2 EXCEPT
                        !.provenance.c2pa.claim_generator = data.claim_generator,
                        !.provenance.c2pa.issuer = data.issuer,
                        !.provenance.c2pa.cert_trusted =
                            IF data.sig_cert_trusted # "absent" THEN data.sig_cert_trusted ELSE @]
                r4 == parse_actions(data.actions, m3)
            IN  IF r4.raised THEN r4
                ELSE
                LET m5 == parse_validation(data, r4.md)
                    m6 == [m5 EXCEPT !.provenance.c2pa.ingredient_count = Len(data.ingredients),
                                     !.provenance.c2pa.ingredients = data.ingredients]
                    r7 == infer_generation_mode(m6)
                IN  IF r7.raised THEN r7
                    ELSE Returned(update_ai_detection(r7.md))

\* C2PAExtractor._parse_manifest
C2PA_parse_manifest(data, md) == parse_manifest_body("c2pa-python", data, md)

\* a wrong fallback: it parses whenever it is given a manifest
C2PATool_parse_manifest_always(data, md) == parse_manifest_body("c2patool", data, md)

\* C2PAToolExtractor._parse_manifest: nothing if c2pa-python already extracted
C2PATool_parse_manifest(data, md) ==
    IF md.provenance.c2pa.has_c2pa /\ md.provenance.c2pa.source = "c2pa-python"
    THEN Returned(md)
    ELSE parse_manifest_body("c2patool", data, md)

\* C2PAExtractor.extract: whatever Reader or the parse raises is swallowed
C2PA_extract(out, md) ==
    IF out.kind # "json" THEN Returned(md)
    ELSE Returned(C2PA_parse_manifest(out.data, md).md)

\* C2PAToolExtractor.extract: only TimeoutExpired, JSONDecodeError and
\* FileNotFoundError are swallowed
C2PATool_extract(out, md) ==
    IF out.kind = "raise" THEN Raised(md)
    ELSE IF out.kind # "json" THEN Returned(md)
    ELSE C2PATool_parse_manifest(out.data, md)

\* the first creation time a manifest's created/published actions offer, up to
\* the point where the parse stops
RECURSIVE ActionsOffer(_)
ActionsOffer(actions) ==
    IF actions = <<>> THEN Nil
    ELSE LET a == Head(actions) IN
         IF ~a.is_dict THEN Nil
         ELSE IF a.when # Nil /\ FromIsoFormat(a.when) # Nil
                 /\ a.action \in {"c2pa.created", "c2pa.published"}
              THEN FromIsoFormat(a.when)
              ELSE ActionsOffer(Tail(actions))

Manifest_offer(out) ==
    IF out.kind = "json" /\ out.data.is_dict /\ out.data.active_manifest # Nil /\ out.data.present
    THEN ActionsOffer(out.data.actions)
    ELSE Nil

-----------------------------------------------------------------------------
(* ExifToolExtractor *)

ExifTool_update_ai_detection(md) ==
    LET info == md.descriptive.iptc_ai
        ai0 == md.ai_detection
        ai1 == IF info.ai_generated = "True"
               THEN add_signal([ai0 EXCEPT !.is_ai_generated = TRUE],
                               "iptc_ai_generated", TRUE, 95,
                               <<"IPTC AIGenerated flag is true">>, FALSE)
               ELSE ai0
        ai2 == IF info.ai_system_used # <<>>
               THEN LET a == add_signal(ai1, "iptc_ai_system", TRUE, 90,
                                        <<"IPTC AISystemUsed:">> \o info.ai_system_used, FALSE)
                    IN  IF a.generator_raw = <<>>
                        THEN [a EXCEPT !.generator_raw = info.ai_system_used]
                        ELSE a
               ELSE ai1
    IN  [md EXCEPT !.ai_detection = ai2]

parse_iptc_ai(data, md) ==
    LET m1 == [md EXCEPT
                !.descriptive.iptc_ai.ai_system_used = data.ai_system_used,
                !.descriptive.iptc_ai.ai_generated =
                    IF data.ai_generated # Nil THEN data.ai_generated ELSE @]
    IN  IF m1.descriptive.iptc_ai.ai_system_used # <<>>
           \/ m1.descriptive.iptc_ai.ai_generated = "True"
        THEN ExifTool_update_ai_detection(m1)
        ELSE m1

\* the values of the create keys present in the output, in the order of create_keys:
\* the first one that parses is the one offered
RECURSIVE FirstParsable(_)
FirstParsable(raws) ==
    IF raws = <<>> THEN Nil
    ELSE IF parse_date(Head(raws)) # Nil THEN Head(raws)
    ELSE FirstParsable(Tail(raws))

\* a wrong _parse_timestamps: the embedded date overwrites whatever is in the slot
ExifTool_parse_timestamps_overwrite(data, md) ==
    LET raw == FirstParsable(data.create_dates)
    IN  IF raw # Nil
        THEN WriteCreation(md, parse_date(raw), "exiftool", raw)
        ELSE md

ExifTool_parse_timestamps(data, md) ==
    LET raw == FirstParsable(data.create_dates)
    IN  IF raw # Nil /\ md.descriptive.creation_timestamp.value = Nil
        THEN WriteCreation(md, parse_date(raw), "exiftool", raw)
        ELSE md

update_ai_from_tiktok(md) ==
    [md EXCEPT !.ai_detection =
        add_signal([@ EXCEPT !.is_ai_generated = TRUE], "tiktok_aigc", TRUE, 95,
                   <<"TikTok AIGC label: aigc_label_type=",
                     md.provenance.platform_aigc.tiktok_aigc_label_type>>, TRUE)]

parse_platform_aigc(data, md) ==
    LET m1 == [md EXCEPT !.provenance.platform_aigc.tiktok_aigc_label_type =
                   IF data.aigc_label_type # Nil THEN data.aigc_label_type ELSE @]
    IN  IF m1.provenance.platform_aigc.tiktok_aigc_label_type = "2"
        THEN update_ai_from_tiktok(m1)
        ELSE m1

ExifTool_extract(out, md) ==
    IF out.kind = "raise" THEN Raised(md)          \* an exception _run_exiftool does not catch
    ELSE IF out.kind = "empty" THEN Returned(md)
    ELSE LET m1 == [md EXCEPT !.raw.exiftool = TRUE]
         IN  IF ~out.is_dict THEN Raised(m1)       \* data.get: AttributeError
             ELSE Returned(parse_platform_aigc(out,
                             ExifTool_parse_timestamps(out, parse_iptc_ai(out, m1))))

ExifTool_offer(out) ==
    IF out.kind = "data" /\ out.is_dict /\ FirstParsable(out.create_dates) # Nil
    THEN parse_date(FirstParsable(out.create_dates))
    ELSE Nil

-----------------------------------------------------------------------------
(* YouTubeAPIExtractor and TikTokAPIExtractor *)

YouTubeAPI_update_ai_detection(md) ==
    [md EXCEPT
        !.ai_detection.is_ai_generated = TRUE,
        !.ai_detection.signals =
            SetSignal(@, "youtube_api_synthetic",
                      Signal("YouTube API Synthetic Media", TRUE, 99,
                             <<"YouTube API: containsSyntheticMedia=true">>, TRUE))]

YouTubeAPI_extract(out, md) ==
    IF out.kind = "raise" THEN Raised(md)          \* not an httpx.HTTPError
    ELSE IF out.kind = "empty" THEN Returned(md)   \* no video id, no items, HTTP error
    ELSE LET m1 == [md EXCEPT
                      !.provenance.platform_aigc.youtube_contains_synthetic_media = out.label]
         IN  IF out.label = "True" THEN Returned(YouTubeAPI_update_ai_detection(m1))
             ELSE Returned(m1)

TikTokAPI_update_ai_detection(md) ==
    [md EXCEPT
        !.ai_detection.is_ai_generated = TRUE,
        !.ai_detection.signals =
            SetSignal(@, "tiktok_api_aigc",
                      Signal("TikTok API AIGC Label", TRUE, 99,
                             <<"TikTok API: video_tag.type=AIGC Type">>, TRUE))]

TikTokAPI_extract(out, md) ==
    IF out.kind = "raise" THEN Raised(md)
    ELSE IF out.kind = "empty" THEN Returned(md)
    ELSE LET m1 == [md EXCEPT
                      !.provenance.platform_aigc.tiktok_api_video_tag_type = out.label]
         IN  IF out.label = "AIGC Type" THEN Returned(TikTokAPI_update_ai_detection(m1))
             ELSE Returned(m1)

-----------------------------------------------------------------------------
(* HeuristicDetector *)

PLATFORM_ENCODER_PATTERNS ==
    { <<"ISO", "Media", "file", "produced", "by", "Google", "Inc.">>, <<"Lavf">> }

\* a wrong platform test: only the pattern list is consulted
is_platform_transcoded_patterns_only(handler, format_encoder) ==
    \E pattern \in PLATFORM_ENCODER_PATTERNS : Contains(handler, pattern)

is_platform_transcoded(handler, format_encoder) ==
    \/ \E pattern \in PLATFORM_ENCODER_PATTERNS : Contains(handler, pattern)
    \/ Contains(handler, <<"ISO", "Media", "file", "produced", "by", "Google">>)
    \/ (format_encoder = <<"Google">> /\ ~Has(handler, "Veo"))

\* a wrong final step: the overall confidence is the lowest detected signal's
recompute_confidence_min(ai) ==
    IF DetectedConfidences(ai.signals) # {}
    THEN [ai EXCEPT !.confidence = Min(DetectedConfidences(ai.signals))]
    ELSE ai

\* heuristic.py 97-102: the overall confidence is the highest detected signal's
recompute_confidence(ai) ==
    IF DetectedConfidences(ai.signals) # {}
    THEN [ai EXCEPT !.confidence = Max(DetectedConfidences(ai.signals))]
    ELSE ai

\* a wrong 96 kHz rule: the verdict is assigned from the test
audio_96khz_assigns(tech, ai) ==
    IF tech.audio.sample_rate = 96000
    THEN LET a == add_signal(ai, "audio_96khz", TRUE, 90,
                             <<"96kHz audio sample rate (Sora signature)">>, FALSE)
         IN  [a EXCEPT !.generator = IF @ = Nil THEN "OpenAI Sora" ELSE @,
                       !.is_ai_generated = TRUE]
    ELSE [ai EXCEPT !.is_ai_generated = FALSE]

\* a wrong 96 kHz rule: the generator is named whatever was there
audio_96khz_overwrites(tech, ai) ==
    IF tech.audio.sample_rate = 96000
    THEN LET a == add_signal(ai, "audio_96khz", TRUE, 90,
                             <<"96kHz audio sample rate (Sora signature)">>, FALSE)
         IN  [a EXCEPT !.generator = "OpenAI Sora", !.is_ai_generated = TRUE]
    ELSE ai

\* heuristic.py 56-68
audio_96khz(tech, ai) ==
    IF tech.audio.sample_rate = 96000
    THEN LET a == add_signal(ai, "audio_96khz", TRUE, 90,
                             <<"96kHz audio sample rate (Sora signature)">>, FALSE)
         IN  [a EXCEPT !.generator = IF @ = Nil THEN "OpenAI Sora" ELSE @,
                       !.is_ai_generated = TRUE]
    ELSE ai

\* heuristic.py 70-95
encoder_tags(tech, is_platform_video, ai) ==
    IF is_platform_video THEN ai
    ELSE LET encoder == tech.video.encoder
             handler == tech.video.handler
             a1 == IF Has(encoder, "Google") /\ Has(encoder, "Veo")
                   THEN LET a == add_signal(ai, "encoder_google_veo", TRUE, 80,
                                            <<"Google Veo encoder detected:">> \o encoder, FALSE)
                        IN  [a EXCEPT !.generator = IF @ = Nil THEN "Google Veo" ELSE @,
                                      !.is_ai_generated = TRUE]
                   ELSE ai
         IN  IF Has(handler, "Mainconcept")
             THEN add_signal(a1, "handler_mainconcept", TRUE, 60,
                             <<"Mainconcept handler (possible Luma):">> \o handler, FALSE)
             ELSE a1

Heuristic_extract(md) ==
    IF ~md.raw.format_tags.is_dict THEN Raised(md)   \* format_tags.get: AttributeError
    ELSE LET tech == md.technical
             is_platform_video ==
                 is_platform_transcoded(tech.video.handler, md.raw.format_tags.encoder)
         IN  Returned([md EXCEPT !.ai_detection =
                 recompute_confidence(
                     encoder_tags(tech, is_platform_video, audio_96khz(tech, @)))])

-----------------------------------------------------------------------------
(* Collaborator outputs the extractors are run on *)

Stream(codec_type, codec_name, sample_rate, encoder, handler) ==
    [is_dict |-> TRUE, codec_type |-> codec_type, codec_name |-> codec_name,
     sample_rate |-> sample_rate, encoder |-> encoder, handler |-> handler]

NotAStream == [Stream(Nil, Nil, Nil, <<>>, <<>>) EXCEPT !.is_dict = FALSE]

VideoPlain == Stream("video", "h264", Nil, <<>>, <<"VideoHandler">>)
VideoVeo == Stream("video", "h264", Nil, <<"Google", "Veo">>, <<"VideoHandler">>)
VideoYouTube ==
    Stream("video", "vp9", Nil, <<>>, <<"ISO", "Media", "file", "produced", "by", "Google", "Inc.">>)
VideoMainconcept ==
    Stream("video", "hevc", Nil, <<"Google", "Veo">>, <<"Mainconcept", "Video", "Media", "Handler">>)
Audio48 == Stream("audio", "aac", "48000", <<>>, <<"SoundHandler">>)
Audio96 == Stream("audio", "aac", "96000", <<>>, <<"SoundHandler">>)

Tags(encoder, creation_time) ==
    [is_dict |-> TRUE, encoder |-> encoder, creation_time |-> creation_time]

Probe(streams, tags) ==
    [kind |-> "data", format_name |-> "mov,mp4,m4a,3gp,3g2,mj2", streams |-> streams, tags |-> tags]

ProbeEmpty == [Probe(<<>>, Tags(<<>>, Nil)) EXCEPT !.kind = "empty"]
ProbeRaise == [Probe(<<>>, Tags(<<>>, Nil)) EXCEPT !.kind = "raise"]

CallProbes ==
    { Probe(<<VideoPlain, Audio96>>, Tags(<<>>, "2024-01-01T00:00:00Z")),
      Probe(<<VideoVeo, Audio48, Audio96>>, Tags(<<>>, "not-a-date")),
      Probe(<<VideoPlain>>, [Tags(<<>>, Nil) EXCEPT !.is_dict = FALSE]) }

RunProbes ==
    CallProbes \cup
    { ProbeEmpty, ProbeRaise,
      Probe(<<VideoYouTube, Audio96>>, Tags(<<"Google">>, Nil)),
      Probe(<<VideoMainconcept, Audio48>>, Tags(<<"Lavf">>, "2024-01-01T00:00:00Z")),
      Probe(<<VideoPlain, NotAStream>>, Tags(<<>>, Nil)) }

Action(kind, agent, source_type, when) ==
    [is_dict |-> TRUE, action |-> kind, softwareAgent |-> agent,
     digitalSourceType |-> source_type, when |-> when]

NotAnAction == [Action(Nil, <<>>, <<>>, Nil) EXCEPT !.is_dict = FALSE]

TrainedAlgorithmicMedia ==
    <<"http:", "/", "/", "cv.iptc.org", "/", "newscodes", "/", "digitalsourcetype", "/",
      "trainedAlgorithmicMedia">>

ActionCreatedAI == Action("c2pa.created", <<>>, TrainedAlgorithmicMedia, "2024-06-15T10:30:00")
ActionPublished == Action("c2pa.published", <<"Sora">>, <<>>, "2025-02-02T02:02:02Z")
ActionEdited == Action("c2pa.edited", <<"Adobe", "Firefly">>, <<"digitalCapture">>, "not-a-date")

Actions == {ActionCreatedAI, ActionPublished, ActionEdited, NotAnAction}

RECURSIVE SeqsUpTo(_, _)
SeqsUpTo(S, n) ==
    IF n = 0 THEN {<<>>}
    ELSE LET shorter == SeqsUpTo(S, n - 1)
         IN  shorter \cup {Append(q, x) : q \in shorter, x \in S}

Ingredient(fmt) == [format_null |-> FALSE, format |-> fmt]
IngredientNullFormat == [format_null |-> TRUE, format |-> <<>>]

Manifest(claim_generator, issuer, actions, ingredients, validation_state, validation_status) ==
    [is_dict |-> TRUE, active_manifest |-> "urn:uuid:m1", present |-> TRUE,
     claim_generator |-> claim_generator, issuer |-> issuer, sig_cert_trusted |-> "absent",
     actions |-> actions, ingredients |-> ingredients,
     validation_state |-> validation_state, validation_status |-> validation_status]

EmptyManifest == Manifest(<<>>, <<>>, <<>>, <<>>, Nil, <<>>)

ManifestNotADict == [EmptyManifest EXCEPT !.is_dict = FALSE]
ManifestNoActive == [EmptyManifest EXCEPT !.active_manifest = Nil, !.present = FALSE]
ManifestMissing == [EmptyManifest EXCEPT !.present = FALSE]

\* the manifests with the given actions
ManifestsOf(actions) ==
    { Manifest(<<"ChatGPT">>, <<"OpenAI", "OpCo", "LLC">>, actions, <<>>, "Valid", <<>>),
      Manifest(<<>>, <<"Truepic">>, actions, <<IngredientNullFormat>>, "Invalid",
               << <<"signingCredential", ".", "untrusted">> >>) }

Manifests(n) ==
    {ManifestNotADict, ManifestNoActive, ManifestMissing}
    \cup UNION {ManifestsOf(a) : a \in SeqsUpTo(Actions, n)}

ToolOut(kind, data) == [kind |-> kind, data |-> data]

\* no manifest in the file, the tool failing in a way the extractor swallows, or one
\* it does not; or the JSON of a manifest
RunManifestOuts ==
    {ToolOut("none", EmptyManifest), ToolOut("raise", EmptyManifest)}
    \cup {ToolOut("json", m) : m \in Manifests(MaxActions)}

CallManifestOuts ==
    {ToolOut("json", m) : m \in
        {ManifestNoActive} \cup ManifestsOf(<<ActionCreatedAI>>)
        \cup {Manifest(<<"Sora">>, <<>>, <<ActionEdited, ActionPublished>>, <<>>, Nil, <<>>)}}

ExifOut(create_dates, ai_generated, ai_system_used, aigc_label_type) ==
    [kind |-> "data", is_dict |-> TRUE, create_dates |-> create_dates,
     ai_generated |-> ai_generated, ai_system_used |-> ai_system_used,
     aigc_label_type |-> aigc_label_type]

ExifOuts ==
    { [ExifOut(<<>>, Nil, <<>>, Nil) EXCEPT !.kind = "empty"],
      [ExifOut(<<>>, Nil, <<>>, Nil) EXCEPT !.is_dict = FALSE],
      ExifOut(<<"not-a-date", "2024:03:10 08:00:00">>, Nil, <<>>, Nil),
      ExifOut(<<"2024:06:15 10:30:00+08:00">>, "True", <<"OpenAI", "Sora">>, "2"),
      ExifOut(<<>>, "False", <<>>, "1") }

ApiOut(kind, label) == [kind |-> kind, label |-> label]

YouTubeOuts == {ApiOut("empty", Nil), ApiOut("data", "True"), ApiOut("data", "False")}
TikTokOuts == {ApiOut("empty", Nil), ApiOut("data", "AIGC Type"), ApiOut("raise", Nil)}

-----------------------------------------------------------------------------
(* The extractor registry and get_available_extractors *)

ExtractorClasses ==
    {"ffprobe", "exiftool", "c2pa-python", "c2patool", "heuristic", "youtube-api", "tiktok-api"}

\* _EXTRACTORS, with C2PAExtractor appended after the import succeeded
EXTRACTORS == <<"ffprobe", "c2patool", "heuristic", "c2pa-python">>

\* the class attribute `priority`
priority(cls) ==
    CASE cls = "youtube-api" -> 5
      [] cls = "tiktok-api" -> 5
      [] cls = "ffprobe" -> 10
      [] cls = "exiftool" -> 15
      [] cls = "c2pa-python" -> 20
      [] cls = "c2patool" -> 25
      [] cls = "heuristic" -> 90

\* list.sort(key=priority): stable
RECURSIVE InsertByPriority(_, _)
InsertByPriority(sorted, x) ==
    IF sorted = <<>> THEN <<x>>
    ELSE IF priority(Head(sorted)) <= priority(x)
         THEN <<Head(sorted)>> \o InsertByPriority(Tail(sorted), x)
         ELSE <<x>> \o sorted

RECURSIVE SortByPriority(_)
SortByPriority(list) ==
    IF list = <<>> THEN <<>>
    ELSE InsertByPriority(SortByPriority(SubSeq(list, 1, Len(list) - 1)), list[Len(list)])

RECURSIVE Filter(_, _)
Filter(list, env) ==
    IF list = <<>> THEN <<>>
    ELSE IF env[Head(list)] = "yes" THEN <<Head(list)>> \o Filter(Tail(list), env)
    ELSE Filter(Tail(list), env)

\* a wrong registry walk: the availability checks are not consulted
get_available_extractors_unchecked(env) ==
    SortByPriority(
        [i \in 1..Len(EXTRACTORS) |-> EXTRACTORS[i]])

get_available_extractors(env) == SortByPriority(Filter(EXTRACTORS, env))

\* the environments: HeuristicDetector.is_available() is always True; exiftool and
\* the two platform API keys are taken as present together or not at all
Environments ==
    {env \in [ExtractorClasses -> {"yes", "no", "raises"}] :
        /\ env["heuristic"] = "yes"
        /\ env["tiktok-api"] = env["youtube-api"]
        /\ env["exiftool"] = env["youtube-api"]
        /\ \A c \in ExtractorClasses \ {"c2pa-python"} : env[c] # "raises"}

-----------------------------------------------------------------------------
(* parse_mp4_boxes: bytes, headers, box records *)

\* box types as their four ASCII bytes; box_type_bytes.decode("ascii"), the latin-1
\* fallback too, gives the code points of the same numbers
ftyp == <<102, 116, 121, 112>>
free == <<102, 114, 101, 101>>
hdlr == <<104, 100, 108, 114>>
mvhd == <<109, 118, 104, 100>>
tkhd == <<116, 107, 104, 100>>
mdhd == <<109, 100, 104, 100>>
moov == <<109, 111, 111, 118>>
trak == <<116, 114, 97, 107>>
mdia == <<109, 100, 105, 97>>
minf == <<109, 105, 110, 102>>
stbl == <<115, 116, 98, 108>>
udta == <<117, 100, 116, 97>>
meta == <<109, 101, 116, 97>>
ilst == <<105, 108, 115, 116>>
edts == <<101, 100, 116, 115>>
dinf == <<100, 105, 110, 102>>
sinf == <<115, 105, 110, 102>>
schi == <<115, 99, 104, 105>>
tref == <<116, 114, 101, 102>>
gmhd == <<103, 109, 104, 100>>
wave == <<119, 97, 118, 101>>

CONTAINER_BOXES ==
    {moov, trak, mdia, minf, stbl, udta, meta, ilst, edts, dinf, sinf, schi, tref, gmhd, wave}

PREVIEW_BOXES == {ftyp, hdlr, mvhd, tkhd, mdhd}

\* a size no file of the model reaches; sizes from here up are all taken as this one
Beyond == 256 * 256 * 256

\* struct.unpack(">I", b): big-endian, 4 bytes
UnpackI(b) ==
    IF b[1] # 0 THEN Beyond ELSE b[2] * 65536 + b[3] * 256 + b[4]

\* struct.unpack(">Q", b): big-endian, 8 bytes
UnpackQ(b) ==
    IF \E i \in 1..5 : b[i] # 0 THEN Beyond ELSE b[6] * 65536 + b[7] * 256 + b[8]

\* struct.pack(">I", n) for n < 2^24
PackI(n) == <<0, n \div 65536, (n \div 256) % 256, n % 256>>

\* f.read(n) at position tell: the bytes there are, at most n
Read(content, tell, n) ==
    IF tell >= Len(content) THEN <<>>
    ELSE SubSeq(content, tell + 1, Min({tell + n, Len(content)}))

NoPreview == [kind |-> "None", hex |-> <<>>]

\* f.read(data_size).hex()[:100]: two hex digits a byte, so the first 50 bytes
Preview(content, tell, size) ==
    LET data == Read(content, tell, Min({size - 8, 256}))
    IN  [kind |-> "hex", hex |-> SubSeq(data, 1, Min({Len(data), 50}))]

BoxInfo(type, size, offset, depth, data_preview) ==
    [type |-> type, size |-> size, offset |-> offset, depth |-> depth,
     data_preview |-> data_preview]

\* container.py 98: the record of a failure
ErrorMarker ==
    BoxInfo(<<101, 114, 114, 111, 114>>, 0, 0, 0, [kind |-> "str(e)", hex |-> <<>>])

\* container.py 47-63: the header at pos: type, size, and how many bytes were read
Header(content, pos, end) ==
    LET header == Read(content, pos, 8)
        size32 == UnpackI(SubSeq(header, 1, 4))
        ext == Read(content, pos + 8, 8)
    IN  IF Len(header) < 8 THEN [short |-> TRUE, type |-> <<>>, size |-> 0, read |-> Len(header)]
        ELSE [short |-> FALSE,
              type |-> SubSeq(header, 5, 8),
              size |-> IF size32 = 1 THEN (IF Len(ext) = 8 THEN UnpackQ(ext) ELSE 1)
                       ELSE IF size32 = 0 THEN end - pos
                       ELSE size32,
              read |-> IF size32 = 1 THEN 8 + Len(ext) ELSE 8]

\* a wrong check: a box running over its enclosing range is taken
FitsSizeOnly(size, pos, end) == size >= 8

\* a wrong check: a box shorter than its header is taken
FitsInRange(size, pos, end) == ~(pos + size > end)

\* container.py 65: the box is taken if its size is at least 8 and it ends within the range
Fits(size, pos, end) == ~(size < 8 \/ pos + size > end)

\* a wrong start of the children: the version/flags of 'meta' are not skipped
DataStartNoSkip(content, type, after_header) == after_header

\* container.py 84-87: where the children start: after the header, for 'meta' after
\* four more bytes
DataStart(content, type, after_header) ==
    IF type = meta THEN after_header + Len(Read(content, after_header, 4)) ELSE after_header

\* a box of a file to parse: a leaf with its payload, or a container with its children
Leaf(type, payload) == [type |-> type, payload |-> payload, children |-> <<>>]
Container(type, children) == [type |-> type, payload |-> <<>>, children |-> children]

\* the two layouts of 'meta': the children fill the payload ("payload"), or follow
\* four bytes of version/flags ("fullbox")
MetaForms == {"payload", "fullbox"}

VersionFlags(box, form) ==
    IF box.type = meta /\ form = "fullbox" THEN <<0, 0, 0, 0>> ELSE <<>>

RECURSIVE SerializeBoxes(_, _)
SerializeBox(box, form) ==
    LET body == VersionFlags(box, form) \o box.payload \o SerializeBoxes(box.children, form)
    IN  PackI(8 + Len(body)) \o box.type \o body

SerializeBoxes(boxes, form) ==
    IF boxes = <<>> THEN <<>>
    ELSE SerializeBox(Head(boxes), form) \o SerializeBoxes(Tail(boxes), form)

\* the (type, size, offset, depth) of the boxes, in file order
RECURSIVE Tuples(_, _, _, _)
Tuples(boxes, offset, depth, form) ==
    IF boxes = <<>> THEN <<>>
    ELSE LET box == Head(boxes)
             size == Len(SerializeBox(box, form))
         IN  <<[type |-> box.type, size |-> size, offset |-> offset, depth |-> depth]>>
             \o Tuples(box.children, offset + 8 + Len(VersionFlags(box, form)), depth + 1, form)
             \o Tuples(Tail(boxes), offset + size, depth, form)

\* the boxes nested up to n deep that the model parses
RECURSIVE Forests(_)
Forests(n) ==
    LET flat == {<<>>, <<Leaf(ftyp, <<105, 115, 111, 109, 0, 0, 0, 1>>)>>,
                 <<Leaf(ftyp, <<>>), Leaf(free, <<>>)>>}
    IN  IF n = 0 THEN flat
        ELSE flat \cup
             UNION {{<<Container(meta, inner)>>, <<Container(moov, inner), Leaf(free, <<0>>)>>} :
                        inner \in Forests(n - 1)}

\* a file cut short by k bytes
Truncated(content, k) == SubSeq(content, 1, Len(content) - k)

\* a file whose size field at offset holds another value
Resized(content, offset, value) ==
    [i \in 1..Len(content) |->
        IF i \in (offset + 1)..(offset + 4) THEN PackI(value)[i - offset] ELSE content[i]]

OtherSizes == {0, 1, 7, 9, 200}

MaxDepths == {1, 5}

Mp4File(content, max_depth, boxes, form, intact) ==
    [content |-> content, max_depth |-> max_depth, boxes |-> boxes, form |-> form,
     intact |-> intact]

NoFile == Mp4File(<<>>, 5, <<>>, "payload", TRUE)

\* the files: the serialization of a forest, as it is, cut short, or with one size
\* field changed
FilesOf(boxes, form, max_depth) ==
    LET content == SerializeBoxes(boxes, form)
        offsets == {t.offset : t \in {Tuples(boxes, 0, 0, form)[i] :
                                         i \in 1..Len(Tuples(boxes, 0, 0, form))}}
    IN  {Mp4File(content, max_depth, boxes, form, TRUE)}
        \cup {Mp4File(Truncated(content, k), max_depth, boxes, form, FALSE) :
                 k \in 1..Min({MaxCut, Len(content)})}
        \cup {Mp4File(Resized(content, o, v), max_depth, boxes, form, FALSE) :
                 o \in offsets, v \in OtherSizes}

Mp4Files ==
    UNION {FilesOf(boxes, form, max_depth) :
              boxes \in Forests(MaxNest), form \in MetaForms, max_depth \in MaxDepths}

\* parse_mp4_boxes before the file is opened
NewParser ==
    [status |-> "closed", tell |-> 0, stack |-> <<>>, boxes |-> <<>>, stops |-> <<>>,
     failed |-> FALSE]

\* no run made, no file looked at
NoStat == [clock |-> 0, mtime |-> 0, atime |-> 0, mount |-> Nil, probe |-> Nil,
           info |-> Nil, records |-> <<>>]

-----------------------------------------------------------------------------
(* analyze_file *)

NoOffers == [s \in {"c2pa", "exiftool", "ffprobe"} |-> Nil]

Offer(o, source, value) ==
    IF value # Nil /\ o[source] = Nil THEN [o EXCEPT ![source] = value] ELSE o

\* a wrong entry: the path is not checked
AnalyzeStartUnchecked ==
    /\ pc = "start"
    /\ pc' = "extractors"
    /\ queue' = get_available_extractors(installed)
    /\ instantiated' = {queue'[i] : i \in 1..Len(queue')}
    /\ UNCHANGED <<file, installed, trace, warnings, metadata, offers, ncalls, sigcall, mp4, parser, fs>>

\* analyze.py 69-79: the existence check, the record, the extractor list
AnalyzeStart ==
    /\ pc = "start"
    /\ IF ~file.exists
       THEN /\ pc' = "not_found"
            /\ UNCHANGED <<queue, instantiated>>
       ELSE /\ pc' = "extractors"
            /\ queue' = get_available_extractors(installed)
            /\ instantiated' = {queue'[i] : i \in 1..Len(queue')}
    /\ UNCHANGED <<file, installed, trace, warnings, metadata, offers, ncalls, sigcall, mp4, parser, fs>>

\* analyze.py 80-81: extractor.extract(path, metadata), ending normally or raising
Invoke(cls, r, offered) ==
    /\ pc = "extractors"
    /\ queue # <<>>
    /\ Head(queue) = cls
    /\ metadata' = r.md
    /\ trace' = Append(trace, cls)
    /\ offers' = offered
    /\ IF r.raised
       THEN pc' = "except" /\ UNCHANGED queue
       ELSE pc' = "extractors" /\ queue' = Tail(queue)
    /\ UNCHANGED <<file, installed, instantiated, warnings, ncalls, sigcall, mp4, parser, fs>>

\* whether a credential extractor given this output goes through the manifest
Parses(cls, out, md) ==
    /\ out.kind = "json"
    /\ cls = "c2patool" => ~(md.provenance.c2pa.has_c2pa /\ md.provenance.c2pa.source = "c2pa-python")

RunFFprobe ==
    \E probe \in RunProbes :
        Invoke("ffprobe", FFprobe_extract(probe, metadata),
               Offer(offers, "ffprobe", FFprobe_offer(probe)))

RunC2PA ==
    \E out \in RunManifestOuts \ {ToolOut("raise", EmptyManifest)} :
        Invoke("c2pa-python", C2PA_extract(out, metadata),
               Offer(offers, "c2pa", Manifest_offer(out)))

RunC2PATool ==
    \E out \in RunManifestOuts :
        Invoke("c2patool", C2PATool_extract(out, metadata),
               IF Parses("c2patool", out, metadata)
               THEN Offer(offers, "c2pa", Manifest_offer(out)) ELSE offers)

RunHeuristic == Invoke("heuristic", Heuristic_extract(metadata), offers)

\* a wrong handler: the failure aborts the analysis
ExceptReraise ==
    /\ pc' = "aborted"
    /\ UNCHANGED <<queue, warnings, metadata>>

\* analyze.py 82-83: warnings.warn, then on to the next extractor
ExceptWarn ==
    /\ pc' = "extractors"
    /\ warnings' = Append(warnings, Head(queue))
    /\ queue' = Tail(queue)
    /\ UNCHANGED metadata

Except ==
    /\ pc = "except"
    /\ ExceptWarn
    /\ UNCHANGED <<file, installed, instantiated, trace, offers, ncalls, sigcall, mp4, parser, fs>>

\* analyze.py 85-91: parse_mp4_boxes returns the boxes, or the boxes and an error marker
BoxStructure(md, is_mp4, boxes) ==
    IF is_mp4 THEN [md EXCEPT !.raw.box_structure = boxes] ELSE md

\* analyze.py 93-99: the filtered strings; an exception of extract_strings is passed over
Strings(md, full, strings) ==
    IF full /\ strings # "raised" THEN [md EXCEPT !.raw.strings = strings] ELSE md

\* analyze.py 85-101: the box structure of MP4/MOV files, the strings in full mode,
\* then the record is returned
Finish ==
    /\ pc = "extractors"
    /\ queue = <<>>
    /\ pc' = "done"
    /\ \E boxes \in {"boxes", "boxes and error marker"}, strings \in {"strings", "raised"} :
          metadata' = Strings(BoxStructure(metadata, file.mp4, boxes), file.full, strings)
    /\ UNCHANGED <<file, installed, queue, instantiated, trace, warnings, offers, ncalls, sigcall, mp4, parser, fs>>

Init ==
    /\ pc = "start"
    /\ file \in {[exists |-> FALSE, mp4 |-> FALSE, full |-> FALSE],
                 [exists |-> TRUE, mp4 |-> FALSE, full |-> FALSE],
                 [exists |-> TRUE, mp4 |-> TRUE, full |-> TRUE]}
    /\ installed \in Environments
    /\ queue = <<>>
    /\ instantiated = {}
    /\ trace = <<>>
    /\ warnings = <<>>
    /\ metadata = NewVideoMetadata
    /\ offers = NoOffers
    /\ ncalls = 0
    /\ sigcall = <<>>
    /\ mp4 = NoFile
    /\ parser = NewParser
    /\ fs = NoStat

Next ==
    \/ AnalyzeStart
    \/ RunFFprobe
    \/ RunC2PA
    \/ RunC2PATool
    \/ RunHeuristic
    \/ Except
    \/ Finish

Spec == Init /\ [][Next]_vars

-----------------------------------------------------------------------------
(* The extractors called directly on one record, in any order *)

AllInstalled == [c \in ExtractorClasses |-> "yes"]

Call(cls, r, offered) ==
    /\ pc = "calls"
    /\ ncalls < MaxCalls
    /\ ncalls' = ncalls + 1
    /\ metadata' = r.md
    /\ trace' = Append(trace, cls)
    /\ offers' = offered
    /\ UNCHANGED <<pc, file, installed, queue, instantiated, warnings, sigcall, mp4, parser, fs>>

CallFFprobe ==
    \E probe \in CallProbes :
        Call("ffprobe", FFprobe_extract(probe, metadata),
             Offer(offers, "ffprobe", FFprobe_offer(probe)))

CallExifTool ==
    \E out \in ExifOuts :
        Call("exiftool", ExifTool_extract(out, metadata),
             Offer(offers, "exiftool", ExifTool_offer(out)))

CallC2PA ==
    \E out \in CallManifestOuts :
        Call("c2pa-python", C2PA_extract(out, metadata),
             Offer(offers, "c2pa", Manifest_offer(out)))

CallC2PATool ==
    \E out \in CallManifestOuts :
        Call("c2patool", C2PATool_extract(out, metadata),
             IF Parses("c2patool", out, metadata)
             THEN Offer(offers, "c2pa", Manifest_offer(out)) ELSE offers)

CallYouTubeAPI ==
    \E out \in YouTubeOuts : Call("youtube-api", YouTubeAPI_extract(out, metadata), offers)

CallTikTokAPI ==
    \E out \in TikTokOuts : Call("tiktok-api", TikTokAPI_extract(out, metadata), offers)

CallHeuristic == Call("heuristic", Heuristic_extract(metadata), offers)

InitCalls ==
    /\ pc = "calls"
    /\ file = [exists |-> TRUE, mp4 |-> TRUE, full |-> FALSE]
    /\ installed = AllInstalled
    /\ queue = <<>>
    /\ instantiated = {}
    /\ trace = <<>>
    /\ warnings = <<>>
    /\ metadata = NewVideoMetadata
    /\ offers = NoOffers
    /\ ncalls = 0
    /\ sigcall = <<>>
    /\ mp4 = NoFile
    /\ parser = NewParser
    /\ fs = NoStat

NextCalls ==
    \/ CallFFprobe
    \/ CallExifTool
    \/ CallC2PA
    \/ CallC2PATool
    \/ CallYouTubeAPI
    \/ CallTikTokAPI
    \/ CallHeuristic

SpecCalls == InitCalls /\ [][NextCalls]_vars

-----------------------------------------------------------------------------
(* add_signal called directly on one AIDetectionResult *)

SignalNames == {"audio_96khz", "c2pa_source_type"}
SignalConfidences == {0, 60, 90}
SignalDescriptions == {<<"first">>, <<"second">>}

AddSignal ==
    \E name \in SignalNames, detected \in BOOLEAN, confidence \in SignalConfidences,
       description \in SignalDescriptions, is_fact \in BOOLEAN :
        /\ pc = "signal"
        /\ ncalls < MaxCalls
        /\ ncalls' = ncalls + 1
        /\ metadata' = [metadata EXCEPT !.ai_detection =
                            add_signal(@, name, detected, confidence, description, is_fact)]
        /\ sigcall' = <<Signal(name, detected, confidence, description, is_fact)>>
        /\ UNCHANGED <<pc, file, installed, queue, instantiated, trace, warnings, offers,
                       mp4, parser, fs>>

InitSignal ==
    /\ pc = "signal"
    /\ file = [exists |-> TRUE, mp4 |-> TRUE, full |-> FALSE]
    /\ installed = AllInstalled
    /\ queue = <<>>
    /\ instantiated = {}
    /\ trace = <<>>
    /\ warnings = <<>>
    /\ metadata = NewVideoMetadata
    /\ offers = NoOffers
    /\ ncalls = 0
    /\ sigcall = <<>>
    /\ mp4 = NoFile
    /\ parser = NewParser
    /\ fs = NoStat

NextSignal == AddSignal

SpecSignal == InitSignal /\ [][NextSignal]_vars

-----------------------------------------------------------------------------
(* The heuristic stage on one record *)

Handlers ==
    { <<"VideoHandler">>,
      <<"ISO", "Media", "file", "produced", "by", "Google", "Inc.">>,
      <<"Lavf", "58.29.100">>,
      <<"Mainconcept", "Video", "Media", "Handler">>,
      <<"Google", "Veo", "Handler">> }

Encoders == { <<>>, <<"Google", "Veo">>, <<"Google">>, <<"Lavc">> }

FormatTags ==
    { [is_dict |-> TRUE, encoder |-> <<>>],
      [is_dict |-> TRUE, encoder |-> <<"Google">>],
      [is_dict |-> TRUE, encoder |-> <<"Lavf">>],
      [is_dict |-> FALSE, encoder |-> <<>>] }

SampleRates == {0, 48000, 96000}

\* the verdict the earlier stages left: none, a credential's, a platform label's
Verdicts ==
    { NewAIDetectionResult,
      [add_signal(NewAIDetectionResult, "c2pa_source_type", TRUE, 100,
                  <<"digitalSourceType:", "trainedAlgorithmicMedia">>, FALSE)
          EXCEPT !.is_ai_generated = TRUE, !.generator = "Adobe Firefly",
                 !.generator_raw = <<"Adobe", "Firefly">>],
      [NewAIDetectionResult EXCEPT
          !.is_ai_generated = TRUE,
          !.signals = SetSignal(@, "youtube_api_synthetic",
                                Signal("YouTube API Synthetic Media", TRUE, 99,
                                       <<"YouTube API">>, TRUE))] }

Records ==
    { [NewVideoMetadata EXCEPT
          !.technical.video = [codec |-> "h264", encoder |-> encoder, handler |-> handler],
          !.technical.audio = [codec |-> "aac", sample_rate |-> sample_rate],
          !.raw.format_tags = format_tags,
          !.ai_detection = verdict] :
        handler \in Handlers, encoder \in Encoders, format_tags \in FormatTags,
        sample_rate \in SampleRates, verdict \in Verdicts }

\* HeuristicDetector.extract on the record
HeuristicStage ==
    /\ pc = "heuristic"
    /\ ncalls = 0
    /\ ncalls' = 1
    /\ metadata' = Heuristic_extract(metadata).md
    /\ trace' = Append(trace, "heuristic")
    /\ warnings' = IF Heuristic_extract(metadata).raised
                   THEN Append(warnings, "heuristic") ELSE warnings
    /\ UNCHANGED <<pc, file, installed, queue, instantiated, offers, sigcall, mp4, parser, fs>>

InitHeuristic ==
    /\ pc = "heuristic"
    /\ file = [exists |-> TRUE, mp4 |-> TRUE, full |-> FALSE]
    /\ installed = AllInstalled
    /\ queue = <<>>
    /\ instantiated = {}
    /\ trace = <<>>
    /\ warnings = <<>>
    /\ metadata \in Records
    /\ offers = NoOffers
    /\ ncalls = 0
    /\ sigcall = <<>>
    /\ mp4 = NoFile
    /\ parser = NewParser
    /\ fs = NoStat

NextHeuristic == HeuristicStage

SpecHeuristic == InitHeuristic /\ [][NextHeuristic]_vars

-----------------------------------------------------------------------------
(* parse_mp4_boxes on one file *)

Frame(end, depth, back) == [end |-> end, depth |-> depth, back |-> back]

\* container.py 93-96: open, seek to the end for the size, parse_boxes(f, 0, file_size, 0)
Open ==
    /\ pc = "boxes"
    /\ parser.status = "closed"
    /\ parser' = [parser EXCEPT !.status = "parsing", !.tell = 0,
                                !.stack = <<Frame(Len(mp4.content), 0, -1)>>]
    /\ UNCHANGED <<pc, file, installed, queue, instantiated, trace, warnings, metadata,
                   offers, ncalls, sigcall, mp4, fs>>

\* the running parse_boxes call, and the header at the file position
Top == Head(parser.stack)
Here == Header(mp4.content, parser.tell, Top.end)
InLoop == pc = "boxes" /\ parser.status = "parsing" /\ parser.tell < Top.end
Taken == InLoop /\ ~Here.short /\ Fits(Here.size, parser.tell, Top.end)

TheBox ==
    BoxInfo(Here.type, Here.size, parser.tell, Top.depth,
            IF Here.type \in PREVIEW_BOXES
            THEN Preview(mp4.content, parser.tell + Here.read, Here.size)
            ELSE NoPreview)

\* parse_boxes returns: to its caller, which seeks past the container (container.py
\* 90), or to parse_mp4_boxes, which returns the boxes
Return(p) ==
    IF Len(p.stack) = 1
    THEN [p EXCEPT !.stack = <<>>, !.status = "returned"]
    ELSE [p EXCEPT !.stack = Tail(p.stack), !.tell = Head(p.stack).back]

\* a wrong turn of the loop: the children of a container are parsed at any depth
ParseBoxAnyDepth ==
    /\ Taken
    /\ parser' =
          IF Here.type \in CONTAINER_BOXES
          THEN [parser EXCEPT
                  !.boxes = Append(@, TheBox),
                  !.tell = DataStart(mp4.content, Here.type, parser.tell + Here.read),
                  !.stack = <<Frame(parser.tell + Here.size, Top.depth + 1,
                                    parser.tell + Here.size)>> \o @]
          ELSE [parser EXCEPT !.boxes = Append(@, TheBox), !.tell = parser.tell + Here.size]
    /\ UNCHANGED <<pc, file, installed, queue, instantiated, trace, warnings, metadata,
                   offers, ncalls, sigcall, mp4, fs>>

\* container.py 45-90: one turn of the loop for a box that is taken: the record, then
\* into its children or past it
ParseBox ==
    /\ Taken
    /\ parser' =
          IF Here.type \in CONTAINER_BOXES /\ Top.depth < mp4.max_depth
          THEN [parser EXCEPT
                  !.boxes = Append(@, TheBox),
                  !.tell = DataStart(mp4.content, Here.type, parser.tell + Here.read),
                  !.stack = <<Frame(parser.tell + Here.size, Top.depth + 1,
                                    parser.tell + Here.size)>> \o @]
          ELSE [parser EXCEPT !.boxes = Append(@, TheBox), !.tell = parser.tell + Here.size]
    /\ UNCHANGED <<pc, file, installed, queue, instantiated, trace, warnings, metadata,
                   offers, ncalls, sigcall, mp4, fs>>

\* container.py 48-49, 65-66: break on a short header, a size under 8 or a box running
\* over the range
Break ==
    /\ InLoop
    /\ ~Taken
    /\ parser' = Return([parser EXCEPT !.stops =
                            IF Here.short THEN @
                            ELSE Append(@, [pos |-> parser.tell, end |-> Top.end,
                                            depth |-> Top.depth])])
    /\ UNCHANGED <<pc, file, installed, queue, instantiated, trace, warnings, metadata,
                   offers, ncalls, sigcall, mp4, fs>>

\* container.py 45: the loop ends at the end of the range
EndOfRange ==
    /\ pc = "boxes"
    /\ parser.status = "parsing"
    /\ parser.tell >= Top.end
    /\ parser' = Return(parser)
    /\ UNCHANGED <<pc, file, installed, queue, instantiated, trace, warnings, metadata,
                   offers, ncalls, sigcall, mp4, fs>>

\* a wrong handler: the failure is passed on to the caller
Reraise(p, recorded) == [p EXCEPT !.boxes = recorded, !.status = "raised", !.failed = TRUE]

\* container.py 97-98: the error marker after the boxes recorded, and the list returned
Failed(p, recorded) ==
    [p EXCEPT !.boxes = Append(recorded, ErrorMarker), !.status = "returned",
              !.failed = TRUE]

\* open, seek, tell or read raises, before the box at hand is recorded
IOError ==
    /\ pc = "boxes"
    /\ parser.status \in {"closed", "parsing"}
    /\ parser' = Failed(parser, parser.boxes)
    /\ UNCHANGED <<pc, file, installed, queue, instantiated, trace, warnings, metadata,
                   offers, ncalls, sigcall, mp4, fs>>

\* tell, read or seek raises after the box was recorded (container.py 84-90)
IOErrorAfterAppend ==
    /\ Taken
    /\ parser' = Failed(parser, Append(parser.boxes, TheBox))
    /\ UNCHANGED <<pc, file, installed, queue, instantiated, trace, warnings, metadata,
                   offers, ncalls, sigcall, mp4, fs>>

InitBoxes ==
    /\ pc = "boxes"
    /\ file = [exists |-> TRUE, mp4 |-> TRUE, full |-> FALSE]
    /\ installed = AllInstalled
    /\ queue = <<>>
    /\ instantiated = {}
    /\ trace = <<>>
    /\ warnings = <<>>
    /\ metadata = NewVideoMetadata
    /\ offers = NoOffers
    /\ ncalls = 0
    /\ sigcall = <<>>
    /\ mp4 \in Mp4Files
    /\ parser = NewParser
    /\ fs = NoStat

NextBoxes ==
    \/ Open
    \/ ParseBox
    \/ Break
    \/ EndOfRange
    \/ IOError
    \/ IOErrorAfterAppend

SpecBoxes == InitBoxes /\ [][NextBoxes]_vars

\* the interpreter runs the call on: a step that can be taken is taken
SpecBoxesFair == SpecBoxes /\ WF_vars(NextBoxes)

-----------------------------------------------------------------------------
(* analyze_file run twice on one file *)

\* how the file system keeps st_atime when a file is read
Mounts == {"noatime", "relatime", "strictatime"}

\* st_atime after a read at the instant now (relatime: only if not newer than st_mtime)
AtimeAfterRead(mount, atime, mtime, now) ==
    CASE mount = "strictatime" -> now
      [] mount = "relatime" -> IF atime <= mtime THEN now ELSE atime
      [] OTHER -> atime

\* datetime.fromtimestamp(t) as model_dump_json writes it
IsoFormat(t) == <<"datetime", t>>

\* get_file_info: modified and accessed from os.stat
get_file_info(stat) == [modified |-> stat.mtime, accessed |-> stat.atime]

\* format_json: the record's fields in declaration order
format_json(info, md) ==
    [file_info |-> [modified |-> IsoFormat(info.modified), accessed |-> IsoFormat(info.accessed)],
     technical |-> md.technical,
     descriptive |-> md.descriptive,
     provenance |-> md.provenance,
     ai_detection |-> md.ai_detection,
     raw |-> md.raw]

\* analyze.py 73-76: the stat and the fresh record
StatFile ==
    /\ pc = "stat"
    /\ fs' = [fs EXCEPT !.info = get_file_info(fs)]
    /\ metadata' = NewVideoMetadata
    /\ pc' = "extractors of a repeated run"
    /\ UNCHANGED <<file, installed, queue, instantiated, trace, warnings, offers, ncalls,
                   sigcall, mp4, parser>>

\* analyze.py 79-91: the prober and the heuristic stage on the same output as in
\* the other run; the prober and parse_mp4_boxes read the file
ReadFile ==
    /\ pc = "extractors of a repeated run"
    /\ metadata' = Heuristic_extract(FFprobe_extract(fs.probe, metadata).md).md
    /\ fs' = [fs EXCEPT !.atime = AtimeAfterRead(fs.mount, fs.atime, fs.mtime, fs.clock)]
    /\ trace' = trace \o <<"ffprobe", "heuristic">>
    /\ pc' = "return"
    /\ UNCHANGED <<file, installed, queue, instantiated, warnings, offers, ncalls,
                   sigcall, mp4, parser>>

\* analyze.py 101, then format_json on the record; the next run, if any
ReturnRecord ==
    /\ pc = "return"
    /\ fs' = [fs EXCEPT !.records = Append(@, format_json(fs.info, metadata))]
    /\ ncalls' = ncalls + 1
    /\ pc' = IF ncalls + 1 < 2 THEN "stat" ELSE "twice"
    /\ UNCHANGED <<file, installed, queue, instantiated, trace, warnings, metadata, offers,
                   sigcall, mp4, parser>>

\* time passes
Tick ==
    /\ pc \in {"stat", "extractors of a repeated run", "return"}
    /\ fs.clock < MaxClock
    /\ fs' = [fs EXCEPT !.clock = @ + 1]
    /\ UNCHANGED <<pc, file, installed, queue, instantiated, trace, warnings, metadata,
                   offers, ncalls, sigcall, mp4, parser>>

InitTwice ==
    /\ pc = "stat"
    /\ file = [exists |-> TRUE, mp4 |-> TRUE, full |-> FALSE]
    /\ installed = AllInstalled
    /\ queue = <<>>
    /\ instantiated = {}
    /\ trace = <<>>
    /\ warnings = <<>>
    /\ metadata = NewVideoMetadata
    /\ offers = NoOffers
    /\ ncalls = 0
    /\ sigcall = <<>>
    /\ mp4 = NoFile
    /\ parser = NewParser
    /\ \E mount \in Mounts, probe \in CallProbes, mtime \in 0..1, atime \in 0..1 :
          fs = [clock |-> 2, mtime |-> mtime, atime |-> atime, mount |-> mount,
                probe |-> probe, info |-> Nil, records |-> <<>>]

NextTwice ==
    \/ StatFile
    \/ ReadFile
    \/ ReturnRecord
    \/ Tick

SpecTwice == InitTwice /\ [][NextTwice]_vars

-----------------------------------------------------------------------------
(* The credential parse on one manifest *)

IngredientLists ==
    { <<>>,
      <<Ingredient(<<"image", "/", "png">>)>>,
      <<Ingredient(<<"video", "/", "mp4">>)>>,
      <<Ingredient(<<"image", "/", "jpeg">>), Ingredient(<<"video", "/", "mp4">>)>>,
      <<Ingredient(<<"video", "/", "webm">>), Ingredient(<<"image", "/", "png">>)>>,
      <<Ingredient(<<"application", "/", "pdf">>)>>,
      <<IngredientNullFormat>> }

ValidationStatuses ==
    { <<>>,
      << <<"claimSignature", ".", "validated">> >>,
      << <<"claimSignature", ".", "validated">>, <<"signingCredential", ".", "Untrusted">> >>,
      << <<"signingCredential", ".", "untrusted">> >> }

\* the actions whose entries are objects
ObjectActions == {ActionCreatedAI, ActionPublished, ActionEdited}

\* a store with a signed AI manifest in it that names no active manifest, or names
\* one that is not in it
Unlocatable ==
    LET m == Manifest(<<"ChatGPT">>, <<"Truepic">>, <<ActionCreatedAI>>, <<>>, "Valid",
                      << <<"claimSignature", ".", "validated">> >>)
    IN  { [m EXCEPT !.active_manifest = Nil, !.present = FALSE],
          [m EXCEPT !.present = FALSE] }

ManifestInputs ==
    {ManifestNotADict, ManifestNoActive, ManifestMissing} \cup Unlocatable
    \cup { [Manifest(<<"ChatGPT">>, <<"Truepic">>, actions, ingredients, state, status)
               EXCEPT !.sig_cert_trusted = flag] :
             actions \in SeqsUpTo(ObjectActions, MaxActions),
             ingredients \in IngredientLists,
             state \in {Nil, "Valid", "Invalid"},
             status \in ValidationStatuses,
             flag \in {"absent", "True", "False"} }

\* the record before the credential extractor: fresh, or after the prober and the
\* heuristic stage saw 96 kHz audio
RecordsBefore ==
    { NewVideoMetadata,
      Heuristic_extract(
          FFprobe_extract(Probe(<<VideoPlain, Audio96>>, Tags(<<>>, "2024-01-01T00:00:00Z")),
                          NewVideoMetadata).md).md }

\* C2PAExtractor.extract or C2PAToolExtractor.extract on the manifest
ParseStage ==
    \E data \in ManifestInputs :
        /\ pc = "manifest"
        /\ ncalls = 0
        /\ ncalls' = 1
        /\ \/ /\ metadata' = C2PA_extract(ToolOut("json", data), metadata).md
              /\ trace' = Append(trace, "c2pa-python")
              /\ UNCHANGED warnings
           \/ /\ metadata' = C2PATool_extract(ToolOut("json", data), metadata).md
              /\ trace' = Append(trace, "c2patool")
              /\ warnings' = IF C2PATool_extract(ToolOut("json", data), metadata).raised
                             THEN Append(warnings, "c2patool") ELSE warnings
        /\ UNCHANGED <<pc, file, installed, queue, instantiated, offers, sigcall, mp4,
                       parser, fs>>

InitManifest ==
    /\ pc = "manifest"
    /\ file = [exists |-> TRUE, mp4 |-> TRUE, full |-> FALSE]
    /\ installed = AllInstalled
    /\ queue = <<>>
    /\ instantiated = {}
    /\ trace = <<>>
    /\ warnings = <<>>
    /\ metadata \in RecordsBefore
    /\ offers = NoOffers
    /\ ncalls = 0
    /\ sigcall = <<>>
    /\ mp4 = NoFile
    /\ parser = NewParser
    /\ fs = NoStat

NextManifest == ParseStage

SpecManifest == InitManifest /\ [][NextManifest]_vars

-----------------------------------------------------------------------------
(* Claims *)

ai == metadata.ai_detection
c2pa == metadata.provenance.c2pa
creation == metadata.descriptive.creation_timestamp

\* the fields of the record, one by one
Leaves(md) ==
    << md.technical.container, md.technical.video, md.technical.audio,
       md.descriptive.software, md.descriptive.iptc_ai,
       md.provenance.c2pa.has_c2pa, md.provenance.c2pa.source,
       md.provenance.c2pa.manifest_id, md.provenance.c2pa.claim_generator,
       md.provenance.c2pa.software_agent, md.provenance.c2pa.issuer,
       md.provenance.c2pa.cert_trusted, md.provenance.c2pa.digital_source_type,
       md.provenance.c2pa.generation_mode, md.provenance.c2pa.actions,
       md.provenance.c2pa.ingredient_count, md.provenance.c2pa.ingredients,
       md.provenance.c2pa.validation_state, md.provenance.c2pa.validation_errors,
       md.provenance.c2pa.claim_signature_valid, md.provenance.platform_aigc,
       md.ai_detection.is_ai_generated, md.ai_detection.generator,
       md.ai_detection.generator_raw, md.ai_detection.confidence,
       md.ai_detection.signals, md.ai_detection.signing_authorities,
       md.raw.ffprobe, md.raw.exiftool, md.raw.c2pa, md.raw.format_tags >>

CreationLeaves(md) == << md.descriptive.creation_timestamp, md.descriptive.creation_date >>

\* every field of `before` that differs from a fresh record's has the same value in `after`
KeepsWritten(before, after, fresh) ==
    \A i \in 1..Len(before) : before[i] # fresh[i] => after[i] = before[i]

ExtractRaises == pc = "extractors" /\ pc' = "except"

\* the exception is absorbed as a warning, the loop goes on with the next extractor,
\* and a finished run has invoked every available extractor in priority order
AbsorbedAndContinued ==
    /\ pc = "except" =>
          /\ pc' = "extractors"
          /\ warnings' = Append(warnings, Head(queue))
          /\ queue' = Tail(queue)
          /\ metadata' = metadata
    /\ pc' \in {"start", "extractors", "except", "done", "not_found"}
    /\ pc' = "done" => trace' = get_available_extractors(installed)

HeuristicSteps(md) ==
    LET a0 == md.ai_detection
        a1 == audio_96khz(md.technical, a0)
        a2 == encoder_tags(md.technical,
                           is_platform_transcoded(md.technical.video.handler,
                                                  md.raw.format_tags.encoder), a1)
        a3 == recompute_confidence(a2)
    IN  <<a0, a1, a2, a3>>

\* C2: within a run the overall confidence never decreases, from one extractor
\* invocation to the next and from one step of the heuristic stage to the next
\* (its final recomputation from the signal map included)
C2_ConfidenceMonotone ==
    [][ /\ metadata'.ai_detection.confidence >= metadata.ai_detection.confidence
        /\ (pc = "extractors" /\ queue # <<>> /\ Head(queue) = "heuristic"
            /\ metadata.raw.format_tags.is_dict) =>
              \A i \in 1..3 : HeuristicSteps(metadata)[i + 1].confidence
                                >= HeuristicSteps(metadata)[i].confidence ]_vars

\* a finished run in which the credential parse set the confidence to 1.0 and the
\* heuristic stage then recorded the 0.9 signal and recomputed
C2_Witness ==
    /\ pc = "done"
    /\ trace = <<"ffprobe", "c2pa-python", "heuristic">>
    /\ HasKey(ai.signals, "c2pa_source_type")
    /\ HasKey(ai.signals, "audio_96khz")
    /\ ai.confidence = 100

\* the order of the timestamp sources, highest last
SourceRank(source) ==
    CASE source = "c2pa" -> 4
      [] source = "exiftool" -> 3
      [] source = "ffprobe" -> 2
      [] source = "filesystem" -> 1
      [] OTHER -> 0

\* C3: whatever the order in which the extractors are called, a populated creation
\* fact changes (value, source or raw text) only by a write from a strictly
\* higher-priority source; so a 'c2pa' fact is never changed by exiftool or ffprobe
C3_CreationNotOverwritten ==
    [][ (metadata.descriptive.creation_timestamp.value # Nil
         /\ metadata'.descriptive.creation_timestamp
              # metadata.descriptive.creation_timestamp) =>
            SourceRank(metadata'.descriptive.creation_timestamp.source)
              > SourceRank(metadata.descriptive.creation_timestamp.source) ]_vars

\* the credential's timestamp stands after exiftool and ffprobe each offered their own
C3_Witness ==
    /\ trace = <<"c2pa-python", "exiftool", "ffprobe">>
    /\ \A s \in {"c2pa", "exiftool", "ffprobe"} : offers[s] # Nil
    /\ creation.source = "c2pa"
    /\ creation.value = offers["c2pa"]
    /\ metadata.raw.exiftool /\ metadata.raw.ffprobe

EmbeddedSources == {"c2pa", "exiftool", "ffprobe"}

Offering == {s \in EmbeddedSources : offers[s] # Nil}

\* C4: once an embedded source has offered a parsable timestamp, the creation fact
\* carries the value and the source label of the highest-priority source that offered
\* one (c2pa > exiftool > ffprobe), whatever the order of the calls
C4_HighestPriorityWins ==
    Offering # {} =>
        LET best == CHOOSE s \in Offering : \A t \in Offering : SourceRank(s) >= SourceRank(t)
        IN  /\ creation.source = best
            /\ creation.value = offers[best]

\* C5: the verdict is monotone: no extractor, called in any order, turns
\* is_ai_generated from true back to false
C5_VerdictMonotone ==
    [][ metadata.ai_detection.is_ai_generated
          => metadata'.ai_detection.is_ai_generated ]_vars

\* the verdict of a platform label stands after exiftool and the heuristic stage ran
\* and found nothing
C5_Witness ==
    /\ trace = <<"youtube-api", "exiftool", "heuristic">>
    /\ ai.is_ai_generated
    /\ metadata.provenance.platform_aigc.youtube_contains_synthetic_media = "True"
    /\ ~HasKey(ai.signals, "audio_96khz")
    /\ ~HasKey(ai.signals, "iptc_ai_generated")

\* C6: a c2patool parse on a record that already has has_c2pa = true with source
\* 'c2pa-python' changes nothing in the record
C6_FallbackNoOp ==
    [][ (trace' = Append(trace, "c2patool")
         /\ metadata.provenance.c2pa.has_c2pa
         /\ metadata.provenance.c2pa.source = "c2pa-python") =>
            metadata' = metadata ]_vars

\* the fallback was called after the primary parse had recorded a manifest
C6_Witness ==
    /\ Len(trace) >= 2
    /\ trace[1] = "c2pa-python" /\ trace[2] = "c2patool"
    /\ c2pa.has_c2pa /\ c2pa.source = "c2pa-python"
    /\ metadata.raw.c2pa # <<>>

\* C7: when the run has finished, the overall confidence is the maximum confidence
\* among the detected signals, and zero when no signal is detected
C7_ConfidenceIsMax ==
    pc = "done" =>
        ai.confidence = IF DetectedConfidences(ai.signals) = {} THEN 0
                        ELSE Max(DetectedConfidences(ai.signals))

\* a finished run with two detected signals of different confidence
C7_Witness ==
    /\ pc = "done"
    /\ DetectedConfidences(ai.signals) = {90, 100}
    /\ ai.confidence = 100
    /\ warnings = <<>>

Entries(signals, name) == {i \in 1..Len(signals) : signals[i][1] = name}

\* C8: add_signal leaves exactly one entry under the supplied name, holding the
\* arguments of this call; the entries under every other name are as before; the
\* confidence becomes max(previous, confidence) for a detected signal and is
\* unchanged otherwise
C8_AddSignal ==
    [][ pc = "signal" =>
          LET call == sigcall'[1]
              old == metadata.ai_detection
              new == metadata'.ai_detection
          IN  /\ Cardinality(Entries(new.signals, call.name)) = 1
              /\ GetSignal(new.signals, call.name) = call
              /\ \A n \in SignalNames \ {call.name} :
                    /\ Entries(new.signals, n) = {} <=> Entries(old.signals, n) = {}
                    /\ Cardinality(Entries(new.signals, n)) <= 1
                    /\ HasKey(old.signals, n) =>
                          GetSignal(new.signals, n) = GetSignal(old.signals, n)
              /\ new.confidence = IF call.detected
                                  THEN Max({old.confidence, call.confidence})
                                  ELSE old.confidence ]_vars

\* a name added as detected at 0.9 and then again as not detected: one entry, the
\* later one, beside another name's entry, and the confidence still 0.9
C8_Witness ==
    /\ pc = "signal"
    /\ ncalls = 3
    /\ Len(ai.signals) = 2
    /\ sigcall # <<>>
    /\ ~sigcall[1].detected
    /\ GetSignal(ai.signals, sigcall[1].name) = sigcall[1]
    /\ ai.confidence = 90

Available == {cls \in ExtractorClasses : installed[cls] = "yes"}

\* C9: a finished run has invoked exactly the extractors whose availability check
\* returned true, over all five families (platform API, technical, tag, container
\* credential, heuristic), each once, in ascending priority
C9_AllAvailableInvoked ==
    pc = "done" =>
        /\ {trace[i] : i \in 1..Len(trace)} = Available
        /\ Len(trace) = Cardinality(Available)
        /\ \A i, j \in 1..Len(trace) : i < j => priority(trace[i]) <= priority(trace[j])

Externals == ExtractorClasses \ {"heuristic"}

\* C10: an extractor whose availability check returns false or raises is never
\* instantiated nor invoked and causes no error; a run in which no external
\* collaborator is available sets no technical, descriptive, provenance or
\* AI-verdict field
C10_UnavailableSkipped ==
    /\ \A cls \in ExtractorClasses :
          installed[cls] # "yes" =>
              /\ cls \notin instantiated
              /\ \A i \in 1..Len(trace) : trace[i] # cls
              /\ \A i \in 1..Len(warnings) : warnings[i] # cls
    /\ pc \in {"start", "extractors", "except", "done", "not_found"}
    /\ pc = "not_found" => ~file.exists
    /\ (pc = "done" /\ \A cls \in Externals : installed[cls] # "yes") =>
          /\ metadata.technical = NewVideoMetadata.technical
          /\ metadata.descriptive = NewVideoMetadata.descriptive
          /\ metadata.provenance = NewVideoMetadata.provenance
          /\ metadata.ai_detection = NewVideoMetadata.ai_detection

\* a finished run with no external collaborator, one availability check raising
C10_Witness ==
    /\ pc = "done"
    /\ \A cls \in Externals : installed[cls] # "yes"
    /\ installed["c2pa-python"] = "raises"
    /\ trace = <<"heuristic">>
    /\ warnings = <<>>
    /\ metadata.technical = NewVideoMetadata.technical

TuplesOf(boxes) ==
    [i \in 1..Len(boxes) |->
        [type |-> boxes[i].type, size |-> boxes[i].size, offset |-> boxes[i].offset,
         depth |-> boxes[i].depth]]

\* the file is the serialization of its boxes, nested no deeper than max_depth
WellFormed(form) ==
    /\ mp4.intact
    /\ mp4.form = form
    /\ \A i \in 1..Len(Tuples(mp4.boxes, 0, 0, form)) :
          Tuples(mp4.boxes, 0, 0, form)[i].depth <= mp4.max_depth

Parsed == pc = "boxes" /\ parser.status = "returned" /\ ~parser.failed

\* C12 as stated: parsing the serialization of a well-formed nested box sequence
\* (children exactly filling the payload of the allow-listed containers, nesting no
\* deeper than max_depth) returns, in file order, the same (type, size, offset, depth)
C12_RoundTrip ==
    (Parsed /\ WellFormed("payload")) =>
        TuplesOf(parser.boxes) = Tuples(mp4.boxes, 0, 0, "payload")

\* C12 as amended: the same, for serializations in which the children of a 'meta' box
\* follow four bytes of version/flags (the children of every other container fill its
\* payload)
C12_RoundTripFullBoxMeta ==
    (Parsed /\ WellFormed("fullbox")) =>
        TuplesOf(parser.boxes) = Tuples(mp4.boxes, 0, 0, "fullbox")

\* a 'meta' box with a 16-byte 'ftyp' in it, parsed back
C12_Witness ==
    /\ Parsed
    /\ WellFormed("fullbox")
    /\ mp4.boxes = <<Container(meta, <<Leaf(ftyp, <<105, 115, 111, 109, 0, 0, 0, 1>>)>>)>>
    /\ TuplesOf(parser.boxes) =
          << [type |-> meta, size |-> 28, offset |-> 0, depth |-> 0],
             [type |-> ftyp, size |-> 16, offset |-> 12, depth |-> 1] >>

IsPrefix(a, b) == Len(a) <= Len(b) /\ SubSeq(b, 1, Len(a)) = a

Markers(boxes) == Cardinality({i \in 1..Len(boxes) : boxes[i] = ErrorMarker})

\* the header at the file position has a size under 8 or runs over the enclosing range
Offending ==
    /\ InLoop
    /\ ~Here.short
    /\ (Here.size < 8 \/ parser.tell + Here.size > Top.end)

\* C13 as stated: at a header whose size is under 8 or that runs over its enclosing
\* range, parsing stops: nothing is raised, no record is emitted for that box or for
\* any box at a later offset, no error marker is added, and the boxes recorded before
\* are returned
C13_StopsParsing ==
    [][ /\ IsPrefix(parser.boxes, parser'.boxes)
        /\ (Offending /\ ~parser'.failed) =>
              /\ parser'.boxes = parser.boxes
              /\ parser'.status = "returned"
        /\ ~parser'.failed =>
              /\ Markers(parser'.boxes) = 0
              /\ \A i \in 1..Len(parser'.stops), j \in 1..Len(parser'.boxes) :
                    parser'.boxes[j].offset < parser'.stops[i].pos ]_vars

\* C13 as amended: at such a header the parse of the enclosing range stops: nothing is
\* raised, no record is emitted for that box or for any box at a later offset within
\* that range, no error marker is added, and the boxes recorded before are kept; when
\* the range is the payload of a container, parsing goes on after the container
C13_StopsRange ==
    [][ /\ IsPrefix(parser.boxes, parser'.boxes)
        /\ (Offending /\ ~parser'.failed) =>
              /\ parser'.boxes = parser.boxes
              /\ parser'.status \in {"parsing", "returned"}
              /\ parser'.stack = Tail(parser.stack)
              /\ parser'.stops = Append(parser.stops, [pos |-> parser.tell, end |-> Top.end,
                                                        depth |-> Top.depth])
        /\ ~parser'.failed =>
              /\ Markers(parser'.boxes) = 0
              /\ \A i \in 1..Len(parser'.stops), j \in 1..Len(parser'.boxes) :
                    ~(/\ parser'.stops[i].pos <= parser'.boxes[j].offset
                      /\ parser'.boxes[j].offset < parser'.stops[i].end) ]_vars

\* a stop inside a container, and the box after the container recorded all the same
C13_Witness ==
    /\ Parsed
    /\ Len(parser.stops) = 1
    /\ parser.stops[1].depth = 1
    /\ \E j \in 1..Len(parser.boxes) :
          /\ parser.boxes[j].offset >= parser.stops[1].end
          /\ parser.boxes[j].type = free

\* C14: parse_mp4_boxes never raises and ends by returning the list; if opening, seeking
\* or reading fails, the list is the boxes recorded before the failure followed by
\* exactly one error marker, and parsing ends there
C14_Total ==
    [][ /\ parser.status \in {"closed", "parsing"}
        /\ parser'.status \in {"parsing", "returned"}
        /\ Markers(parser'.boxes) = (IF parser'.failed THEN 1 ELSE 0)
        /\ parser'.failed =>
              /\ parser'.status = "returned"
              /\ IsPrefix(parser.boxes, parser'.boxes)
              /\ parser'.boxes[Len(parser'.boxes)] = ErrorMarker
              /\ Len(parser'.boxes) <= Len(parser.boxes) + 2 ]_vars

\* a read failing after two boxes were recorded
C14_Witness ==
    /\ pc = "boxes"
    /\ parser.status = "returned"
    /\ parser.failed
    /\ Len(parser.boxes) = 3
    /\ parser.boxes[3] = ErrorMarker
    /\ parser.boxes[1].type = moov

\* the heuristic stage gets as far as its rules (format_tags is a mapping)
StageRuns == pc = "heuristic" /\ metadata.raw.format_tags.is_dict

\* C15: in the heuristic stage a sample rate of exactly 96000 records 'audio_96khz' as
\* detected, confidence 0.9, is_fact false, and names the generator 'OpenAI Sora' only
\* if none was set; any other rate records no such signal and does not name it
C15_Audio96kHz ==
    [][ StageRuns =>
          IF metadata.technical.audio.sample_rate = 96000
          THEN /\ HasKey(metadata'.ai_detection.signals, "audio_96khz")
               /\ GetSignal(metadata'.ai_detection.signals, "audio_96khz") =
                     Signal("audio_96khz", TRUE, 90,
                            <<"96kHz audio sample rate (Sora signature)">>, FALSE)
               /\ metadata'.ai_detection.generator =
                     (IF metadata.ai_detection.generator = Nil THEN "OpenAI Sora"
                      ELSE metadata.ai_detection.generator)
          ELSE /\ ~HasKey(metadata'.ai_detection.signals, "audio_96khz")
               /\ metadata'.ai_detection.generator # "OpenAI Sora" ]_vars

\* 96 kHz audio on a record whose generator a credential had named: the signal is
\* recorded and the generator kept
C15_Witness ==
    /\ pc = "heuristic"
    /\ ncalls = 1
    /\ metadata.technical.audio.sample_rate = 96000
    /\ HasKey(ai.signals, "audio_96khz")
    /\ ai.generator = "Adobe Firefly"

\* the tags of a platform's transcoder
PlatformTagged ==
    \/ Contains(metadata.technical.video.handler,
                <<"ISO", "Media", "file", "produced", "by", "Google">>)
    \/ Has(metadata.technical.video.handler, "Lavf")
    \/ (metadata.raw.format_tags.encoder = <<"Google">>
        /\ ~Has(metadata.technical.video.handler, "Veo"))

VeoTagged ==
    /\ Has(metadata.technical.video.encoder, "Google")
    /\ Has(metadata.technical.video.encoder, "Veo")

\* C16: in the heuristic stage the tags name the generator only when the video encoder
\* tag has both 'Google' and 'Veo', the stream is not platform-transcoded and no
\* generator is set; a platform transcoder's tag adds no encoder or handler signal, no
\* generator and no AI assertion; the 'Mainconcept' handler adds a 0.6 signal and
\* never names the generator
C16_TagEvidence ==
    [][ StageRuns =>
          LET old == metadata.ai_detection
              new == metadata'.ai_detection
              rate96 == metadata.technical.audio.sample_rate = 96000
          IN  /\ (new.generator = "Google Veo" /\ old.generator # "Google Veo") =>
                    VeoTagged /\ ~PlatformTagged /\ old.generator = Nil
              /\ ~VeoTagged => ~HasKey(new.signals, "encoder_google_veo")
              /\ PlatformTagged =>
                    /\ ~HasKey(new.signals, "encoder_google_veo")
                    /\ ~HasKey(new.signals, "handler_mainconcept")
                    /\ ~rate96 => /\ new.generator = old.generator
                                  /\ new.is_ai_generated = old.is_ai_generated
              /\ (Has(metadata.technical.video.handler, "Mainconcept") /\ ~PlatformTagged) =>
                    /\ HasKey(new.signals, "handler_mainconcept")
                    /\ GetSignal(new.signals, "handler_mainconcept").detected
                    /\ GetSignal(new.signals, "handler_mainconcept").confidence = 60
                    /\ ~GetSignal(new.signals, "handler_mainconcept").is_fact
                    /\ (~VeoTagged /\ ~rate96) => /\ new.generator = old.generator
                                                  /\ new.is_ai_generated = old.is_ai_generated ]_vars

\* a YouTube-transcoded stream whose encoder tag names Veo: nothing is added
C16_Witness ==
    /\ pc = "heuristic"
    /\ ncalls = 1
    /\ PlatformTagged /\ VeoTagged
    /\ metadata.raw.format_tags.encoder = <<"Google">>
    /\ metadata.technical.audio.sample_rate = 48000
    /\ ai = NewAIDetectionResult

\* the record after the first k streams of a prober's output
AfterStreams(probe, k) == parse_streams(SubSeq(probe.streams, 1, k), metadata).md.technical

\* C17: once technical.video.codec (technical.audio.codec) is non-empty, no later
\* stream of the same family and no later extractor changes a field of that
\* sub-stream
C17_FirstStreamWins ==
    [][ /\ metadata.technical.video.codec # Nil =>
              metadata'.technical.video = metadata.technical.video
        /\ metadata.technical.audio.codec # Nil =>
              metadata'.technical.audio = metadata.technical.audio
        /\ \A probe \in CallProbes : \A k \in 1..Len(probe.streams) :
              /\ AfterStreams(probe, k - 1).video.codec # Nil =>
                    AfterStreams(probe, k).video = AfterStreams(probe, k - 1).video
              /\ AfterStreams(probe, k - 1).audio.codec # Nil =>
                    AfterStreams(probe, k).audio = AfterStreams(probe, k - 1).audio ]_vars

\* two ffprobe runs: the first saw the Veo video stream and 48 kHz then 96 kHz audio,
\* the second another video stream, and the record still holds the first of each
C17_Witness ==
    /\ pc = "calls"
    /\ trace = <<"ffprobe", "ffprobe">>
    /\ metadata.technical.video.encoder = <<"Google", "Veo">>
    /\ metadata.technical.audio.sample_rate = 48000
    /\ creation.value # Nil

C19_FactGradeSignal ==
    (C2PAInfo_is_ai_generated(c2pa) /\ HasKey(ai.signals, "c2pa_source_type")) =>
        /\ ai.is_ai_generated
        /\ ai.confidence = 100
        /\ GetSignal(ai.signals, "c2pa_source_type").detected
        /\ GetSignal(ai.signals, "c2pa_source_type").confidence = 100
        /\ GetSignal(ai.signals, "c2pa_source_type").is_fact

Warned(cls) == \E i \in 1..Len(warnings) : warnings[i] = cls

\* C20: a manifest with an absent or wrong-typed field never makes the credential
\* extractor that parses it raise, and the steps after the offending field are still
\* performed: a recorded digital source type of 'trainedAlgorithmicMedia' has reached
\* the AI-verdict update
C20_MalformedFieldSkipped ==
    /\ \A cls \in {"c2pa-python", "c2patool"} : c2pa.source = cls => ~Warned(cls)
    /\ (c2pa.has_c2pa /\ C2PAInfo_is_ai_generated(c2pa)) =>
          /\ ai.is_ai_generated
          /\ HasKey(ai.signals, "c2pa_source_type")

\* C21: two runs of the pipeline on the same file with the same collaborator outputs
\* give records that serialize to the same JSON, the file_info timestamps included
C21_Idempotent ==
    Len(fs.records) = 2 => fs.records[1] = fs.records[2]

\* the manifest data the parse was given: _parse_manifest stores it in raw.c2pa
Given == metadata'.raw.c2pa[1]

\* the parse step found the active manifest among the manifests
ParsedActive ==
    /\ pc = "manifest"
    /\ Given.is_dict /\ Given.active_manifest # Nil /\ Given.present

UntrustedCode ==
    \E i \in 1..Len(Given.validation_status) :
        Has(Lower(Given.validation_status[i]), "untrusted")

\* C22: after a credential parse cert_trusted is true only if validation_state is
\* exactly 'Valid' and no validation-status code contains 'untrusted'; a code that
\* contains 'untrusted' makes it false whatever the state and the signature's flag
C22_CertTrusted ==
    [][ ParsedActive =>
          /\ metadata'.provenance.c2pa.cert_trusted = "True" =>
                Given.validation_state = "Valid" /\ ~UntrustedCode
          /\ UntrustedCode => metadata'.provenance.c2pa.cert_trusted = "False" ]_vars

VideoLike(fmt) == \E t \in {"video", "mp4", "webm", "mov"} : Has(fmt, t)
ImageLike(fmt) == \E t \in {"image", "jpeg", "jpg", "png", "webp"} : Has(fmt, t)

\* C23: the generation mode is inferred only when the digital source type contains
\* 'trainedAlgorithmicMedia' (else it stays unset): no ingredient gives the text mode,
\* an ingredient with a video-like format the video mode, else one with an image-like
\* format the image mode, else the text mode, in whatever order the ingredients come
C23_GenerationMode ==
    [][ (ParsedActive /\ \A i \in 1..Len(Given.ingredients) : ~Given.ingredients[i].format_null) =>
          LET new == metadata'.provenance.c2pa
              ings == Given.ingredients
          IN  new.generation_mode =
                IF ~Has(new.digital_source_type, "trainedAlgorithmicMedia")
                THEN metadata.provenance.c2pa.generation_mode
                ELSE IF ings = <<>> THEN "text2video"
                ELSE IF \E i \in 1..Len(ings) : VideoLike(ings[i].format) THEN "video2video"
                ELSE IF \E i \in 1..Len(ings) : ImageLike(ings[i].format) THEN "image2video"
                ELSE "text2video" ]_vars

\* an image ingredient followed by a video ingredient: the video mode
C23_Witness ==
    /\ pc = "manifest"
    /\ ncalls = 1
    /\ Len(c2pa.ingredients) = 2
    /\ ImageLike(c2pa.ingredients[1].format)
    /\ VideoLike(c2pa.ingredients[2].format)
    /\ c2pa.generation_mode = "video2video"

\* the priority bands, earliest first
Band(cls) ==
    CASE cls \in {"youtube-api", "tiktok-api"} -> 1
      [] cls = "ffprobe" -> 2
      [] cls = "exiftool" -> 3
      [] cls = "c2pa-python" -> 4
      [] cls = "c2patool" -> 5
      [] cls = "heuristic" -> 6

Invoked(cls) == \E i \in 1..Len(trace) : trace[i] = cls

\* C24: in a finished run, of two available extractors the one of the earlier band
\* (platform API, technical prober, tag prober, credential library, credential CLI,
\* heuristic) has been invoked, and before the other
C24_BandOrder ==
    pc = "done" =>
        \A a, b \in Available :
            Band(a) < Band(b) =>
                /\ Invoked(a) /\ Invoked(b)
                /\ \A i, j \in 1..Len(trace) : (trace[i] = a /\ trace[j] = b) => i < j

\* the record under which record i was emitted: the nearest earlier one a level up
IsParent(boxes, j, i) ==
    /\ j < i
    /\ boxes[j].depth = boxes[i].depth - 1
    /\ \A k \in (j + 1)..(i - 1) : boxes[k].depth >= boxes[i].depth

\* C25: a record below the top level has a parent record whose type is in the
\* container allow-list and whose depth is under max_depth; it is one level deeper
\* and lies inside the parent's byte range; no record is deeper than max_depth; the
\* first child of a 'meta' box starts 4 bytes after the header of the box
C25_ChildRecords ==
    pc = "boxes" =>
        \A i \in 1..Len(parser.boxes) :
            LET b == parser.boxes[i] IN
            b # ErrorMarker =>
                /\ b.depth <= mp4.max_depth
                /\ b.depth > 0 =>
                      \E j \in 1..(i - 1) :
                          LET parent == parser.boxes[j] IN
                          /\ IsParent(parser.boxes, j, i)
                          /\ parent.type \in CONTAINER_BOXES
                          /\ parent.depth < mp4.max_depth
                          /\ parent.offset + 8 <= b.offset
                          /\ b.offset + b.size <= parent.offset + parent.size
                          /\ (parent.type = meta /\ j = i - 1) =>
                                b.offset = parent.offset + 4 +
                                    Header(mp4.content, parent.offset, Len(mp4.content)).read

\* max_depth 1 on boxes nested two deep: the container at depth 1 is recorded, its
\* children are not
C25_Witness ==
    /\ Parsed
    /\ mp4.max_depth = 1
    /\ mp4.intact
    /\ \E i \in 1..Len(mp4.boxes) : \E k \in 1..Len(mp4.boxes[i].children) :
          mp4.boxes[i].children[k].children # <<>>
    /\ \E i \in 1..Len(parser.boxes) :
          parser.boxes[i].depth = 1 /\ parser.boxes[i].type \in CONTAINER_BOXES
    /\ \E i \in 1..Len(parser.boxes) :
          i > 1 /\ parser.boxes[i - 1].type = meta /\ parser.boxes[i].depth = 1

BoxRecords(boxes) == {i \in 1..Len(boxes) : boxes[i] # ErrorMarker}

\* C30: parse_mp4_boxes terminates: a turn of the box loop that does not stop moves
\* the loop's offset on by at least 8 bytes and not past the enclosing range,
\* parse_boxes is entered only while depth < max_depth, the nesting stays within
\* max_depth and the records within the file size
C30_Terminates ==
    /\ [][ Len(parser'.boxes) > Len(parser.boxes) /\ parser'.boxes[Len(parser'.boxes)] # ErrorMarker =>
             LET entered == Len(parser'.stack) > Len(parser.stack)
                 next == IF entered THEN Head(parser'.stack).back ELSE parser'.tell
             IN  /\ next >= parser.tell + 8
                 /\ next <= Top.end
                 /\ entered => /\ Top.depth < mp4.max_depth
                               /\ Head(parser'.stack).depth = Top.depth + 1
                               /\ parser'.tell >= parser.tell + 8 ]_vars
    /\ [](pc = "boxes" =>
             /\ Len(parser.stack) <= mp4.max_depth + 1
             /\ 8 * Cardinality(BoxRecords(parser.boxes)) <= Len(mp4.content))
    /\ <>(pc = "boxes" => parser.status = "returned")

\* a parse that went two levels down a file of three boxes and returned
C30_Witness ==
    /\ Parsed
    /\ mp4.intact
    /\ Cardinality(BoxRecords(parser.boxes)) >= 3
    /\ \E i \in 1..Len(parser.boxes) : parser.boxes[i].depth = 2

\* the parse step was given data naming no active manifest, or one that is missing
NoActiveManifest ==
    /\ pc = "manifest"
    /\ Given.is_dict
    /\ (Given.active_manifest = Nil \/ ~Given.present)

\* C26 as stated: when the data names no active manifest, or one not among the
\* manifests, the parse ends without error, sets nothing in the credential record
\* but the detection flag and its source tag, and leaves verdict, signals and
\* timestamps as they were
C26_NoActiveManifest ==
    [][ NoActiveManifest =>
          /\ warnings' = warnings
          /\ metadata'.provenance.c2pa =
                [metadata.provenance.c2pa EXCEPT !.has_c2pa = TRUE, !.source = trace'[1]]
          /\ metadata'.ai_detection = metadata.ai_detection
          /\ metadata'.descriptive = metadata.descriptive ]_vars

\* C26 as amended: the same, except that an active manifest that is named but not
\* among the manifests leaves its id in manifest_id
C26_NoActiveManifestKeepsId ==
    [][ NoActiveManifest =>
          /\ warnings' = warnings
          /\ metadata'.provenance.c2pa =
                [metadata.provenance.c2pa EXCEPT !.has_c2pa = TRUE, !.source = trace'[1],
                                                 !.manifest_id = Given.active_manifest]
          /\ metadata'.ai_detection = metadata.ai_detection
          /\ metadata'.descriptive = metadata.descriptive ]_vars

\* the fallback was given data without an active manifest, after the prober and the
\* heuristic stage had written a timestamp and a verdict
C26_Witness ==
    /\ pc = "manifest"
    /\ trace = <<"c2patool">>
    /\ c2pa.has_c2pa /\ c2pa.source = "c2patool"
    /\ metadata.raw.c2pa[1] \in Unlocatable
    /\ c2pa.manifest_id = Nil
    /\ creation.source = "ffprobe"
    /\ HasKey(ai.signals, "audio_96khz")

\* C27: between extractor invocations the overall confidence is at least the
\* confidence of every detected signal in the signal map, whichever extractors ran
\* (the platform-API extractors included)
C27_ConfidenceCoversSignals ==
    \A i \in 1..Len(ai.signals) :
        ai.signals[i][2].detected => ai.confidence >= ai.signals[i][2].confidence

\* C28: at the end of a run a verdict of AI-generated has a detected signal in the
\* signal map and an overall confidence above 0, also when only a generator-lexicon
\* match asserted it
C28_VerdictSupported ==
    (pc = "done" /\ ai.is_ai_generated) =>
        /\ \E i \in 1..Len(ai.signals) : ai.signals[i][2].detected
        /\ ai.confidence > 0

\* C29: if an action of the active manifest declares a digitalSourceType whose last
\* segment contains 'trainedAlgorithmicMedia', then after the parse the record's
\* digital source type contains it and the verdict is AI-generated with confidence
\* 1.0, whatever the later actions declare
C29_AnyActionDeclaresAI ==
    [][ (/\ ParsedActive
         /\ \A i \in 1..Len(Given.ingredients) : ~Given.ingredients[i].format_null
         /\ \E i \in 1..Len(Given.actions) :
               Has(LastSegment(Given.actions[i].digitalSourceType), "trainedAlgorithmicMedia")) =>
          /\ Has(metadata'.provenance.c2pa.digital_source_type, "trainedAlgorithmicMedia")
          /\ metadata'.ai_detection.is_ai_generated
          /\ metadata'.ai_detection.confidence = 100 ]_vars

====
